---------------------------- MODULE Spec2Model ----------------------------
(***************************************************************************)
(* A model of evo-passport: the session token codec, the storage           *)
(* providers, PassportModel.getOrCreateAccount, the magic-link login       *)
(* handler and its AutoMailer, and the session middleware.                 *)
(*                                                                         *)
(* The repository ships two token codecs (the checksum codec of            *)
(* src/lib/model.ts and the HMAC codec of src/unnamed/part_003), two       *)
(* PassportModel.getOrCreateAccount bodies and two storage providers.      *)
(* Which of them a deployment runs is a choice of the build, so the model  *)
(* draws it in Init ("build") and a property is stated for all of them.   *)
(*                                                                         *)
(* Numbers: TLC integers are 32 bit, so user ids are drawn from samples    *)
(* below 2^31 that include 0 and pairs congruent modulo 65521.             *)
(***************************************************************************)
EXTENDS Integers, Sequences, FiniteSets, TLC

VARIABLES
    codec,      \* the token codec under exercise: build, secret, minted token, last verification
    build,      \* the build that runs: [provider, ver]
    store,      \* the storage provider's tables / keys
    call,       \* the last completed operation and what it returned
    prev,       \* the operation completed before it
    steps,      \* the number of operations completed
    config,     \* LoginConfiguration: the limiters configured, the code capacity
    loginCodes, \* the LRUCache of LoginRequests, least recently used first
    ipLimiter,  \* the IP limiter's counters
    emailLimiter, \* the email limiter's counters
    mailer,     \* AutoMailer: scores, orders, lastEvaluated
    now,        \* Date.now(), in units of 600000 ms
    resp,       \* the last request of the login route and its response
    hist,       \* history of the login route: codes issued and redeemed, requests per email
    mailed,     \* history of the mailer: calls of sendMail, failures and successes
    web,        \* the session middleware: its build, its session cache, its last request
    procs       \* the callers of PassportModel that run concurrently, each with its position

cVars == <<codec>>
sVars == <<build, store, call, prev, steps>>
lVars == <<config, loginCodes, ipLimiter, emailLimiter, resp, hist>>
mVars == <<mailer, now, mailed>>
xVars == <<web, procs>>
vars == <<codec, build, store, call, prev, steps, config, loginCodes, ipLimiter, emailLimiter,
          mailer, now, resp, hist, mailed, web, procs>>

(***************************************************************************)
(* Values shared by all parts.                                             *)
(***************************************************************************)
\* JavaScript's undefined
Undef == "undefined"

\* SQL NULL as the mysql driver returns it (JavaScript null)
Null == "null"

-----------------------------------------------------------------------------
(***************************************************************************)
(* Session token codec                                                     *)
(***************************************************************************)
SESSION_PREFIX_LENGTH == 6
SESSION_ROTATE_NUMBER == 65521

\* The builds of the codec: the checksum of src/lib/model.ts, the HMAC of part_003.
ModelVersions == {"checksum", "hmac"}

\* Sample user ids: 0, small ids, and ids congruent modulo SESSION_ROTATE_NUMBER.
UserIds == {0, 1, 65521, 65522, 131042}

\* Sample values of a random byte.
RandomByteValues == {0, 255}

\* randomBytes(SESSION_PREFIX_LENGTH)
RandomPrefixes == [1..SESSION_PREFIX_LENGTH -> RandomByteValues]

\* A character of a token string: a hex digit 0..15, or NonHex (any other character).
NonHex == 16

\* Buffer.toString("hex"): two hex digits per byte, high nibble first.
RECURSIVE ToHex(_)
ToHex(bytes) ==
    IF bytes = <<>> THEN <<>>
    ELSE <<Head(bytes) \div 16, Head(bytes) % 16>> \o ToHex(Tail(bytes))

\* Buffer.from(s, "hex"): decodes pairs of hex digits and stops at the first
\* pair that is not two hex digits; a trailing single character is dropped.
RECURSIVE FromHex(_)
FromHex(s) ==
    IF Len(s) < 2 THEN <<>>
    ELSE IF s[1] >= NonHex \/ s[2] >= NonHex THEN <<>>
    ELSE <<s[1] * 16 + s[2]>> \o FromHex(SubSeq(s, 3, Len(s)))

\* The checksum loop: crc = (crc * 2 + b) % SESSION_ROTATE_NUMBER over the first i bytes.
RECURSIVE CrcOfBytes(_, _)
CrcOfBytes(bytes, i) ==
    IF i = 0 THEN 0
    ELSE (CrcOfBytes(bytes, i - 1) * 2 + bytes[i]) % SESSION_ROTATE_NUMBER

\* a check value that does not take the userId in
ChecksumOfPrefix(bytes, userId) ==
    (CrcOfBytes(bytes, SESSION_PREFIX_LENGTH) * 2) % SESSION_ROTATE_NUMBER

\* crc = (crc * 2 + userId) % SESSION_ROTATE_NUMBER after the prefix loop
Checksum(bytes, userId) ==
    (CrcOfBytes(bytes, SESSION_PREFIX_LENGTH) * 2 + userId) % SESSION_ROTATE_NUMBER

\* A generateSessionId that writes the check value low byte first.
generateSessionIdLowByteFirst(userId, bytes) ==
    LET crc == Checksum(bytes, userId)
    IN  ToHex(bytes \o <<crc % 256, crc \div 256>>)

\* generateSessionId of src/lib/model.ts: prefix, crc >> 8, crc % 256, in hex.
generateSessionIdChecksum(userId, bytes) ==
    LET crc == Checksum(bytes, userId)
    IN  ToHex(bytes \o <<crc \div 256, crc % 256>>)

\* validateSessionId of src/lib/model.ts.
validateSessionIdChecksum(sessionId, userId) ==
    LET buff == FromHex(sessionId)
    IN  IF Len(buff) # SESSION_PREFIX_LENGTH + 2 THEN FALSE
        ELSE LET crc == Checksum(buff, userId)
             IN  /\ buff[SESSION_PREFIX_LENGTH + 1] = crc \div 256
                 /\ buff[SESSION_PREFIX_LENGTH + 2] = crc % 256

\* Number.prototype.toString() of a non-negative integer, as ASCII bytes.
RECURSIVE NumberToString(_)
NumberToString(n) ==
    IF n < 10 THEN <<48 + n>>
    ELSE NumberToString(n \div 10) \o <<48 + (n % 10)>>

\* The signing secrets a process may be started with ("" is an unset secret).
Secrets == {"", "s3cret"}

\* The byte that stands for a key in the digest model.
KeyByte(key) == IF key = "s3cret" THEN 83 ELSE 0

\* HMAC-SHA256 digest length in bytes.
DigestLength == 32

\* createHmac('sha256', key).update(..).digest(): a 32 byte value, modelled as an
\* ideal MAC: a function of (key, message) that is injective on the messages of
\* the model and differs in more than one byte for different messages
\* (length, the message twice, zero padding, key byte).
HmacDigest(key, msg) ==
    <<Len(msg)>> \o msg \o msg \o [i \in 1..(DigestLength - 2 * Len(msg) - 2) |-> 0]
        \o <<KeyByte(key)>>

\* generateSessionId of part_003: prefix and HMAC(prefix, userId.toString()), in hex.
generateSessionIdHmac(key, userId, prefix) ==
    ToHex(prefix \o HmacDigest(key, prefix \o NumberToString(userId)))

\* timingSafeEqual of part_003: equal length and no differing byte.
timingSafeEqual(a, b) ==
    /\ Len(a) = Len(b)
    /\ \A i \in 1..Len(a) : a[i] = b[i]

\* buff.slice(from, to) of a Buffer (0 based, end exclusive, clamped).
BufferSlice(buff, from, to) ==
    SubSeq(buff, from + 1, IF to > Len(buff) THEN Len(buff) ELSE to)

\* validateSessionId of part_003 (with the secret set).
validateSessionIdHmac(key, sessionId, userId) ==
    LET buff == FromHex(sessionId)
        prefix == BufferSlice(buff, 0, SESSION_PREFIX_LENGTH)
        signature == BufferSlice(buff, SESSION_PREFIX_LENGTH, Len(buff))
        validSignature == HmacDigest(key, prefix \o NumberToString(userId))
    IN  timingSafeEqual(signature, validSignature)

\* A token value standing for "the call raised": no sequence of token characters.
Thrown == <<-1>>

\* if (!PASSPORT_SECRET_KEY) throw ...: the guard that opens both HMAC functions.
SecretMissing(ver, key) == ver = "hmac" /\ key = ""

\* generateSessionId of the build ver.
generateSessionId(ver, key, userId, bytes) ==
    IF ver = "checksum" THEN generateSessionIdChecksum(userId, bytes)
    ELSE IF SecretMissing(ver, key) THEN Thrown
    ELSE generateSessionIdHmac(key, userId, bytes)

\* validateSessionId of the build ver: "true", "false", or "thrown".
validateSessionId(ver, key, sessionId, userId) ==
    IF ver = "checksum"
    THEN (IF validateSessionIdChecksum(sessionId, userId) THEN "true" ELSE "false")
    ELSE IF SecretMissing(ver, key) THEN "thrown"
    ELSE IF validateSessionIdHmac(key, sessionId, userId) THEN "true" ELSE "false"

\* the codec part before any call
CodecIdle == [ver |-> "checksum", key |-> "", op |-> "none", user |-> 0, prefix |-> <<>>,
              token |-> <<>>, given |-> <<>>, claimed |-> 0, valid |-> Undef]

-----------------------------------------------------------------------------
(***************************************************************************)
(* Storage providers.  store holds the tables of the relational provider   *)
(* (sqlAccounts, sqlSessions, sqlOauth) and the key families of the        *)
(* key-value provider (kvSession, kvAccount, kvOauth, kvToken); a build    *)
(* uses one of the two.  A storage operation is an operator from a store   *)
(* to [st: the store afterwards, ret: the value returned, threw: whether   *)
(* the promise was rejected].                                              *)
(*                                                                         *)
(* Key strings ("oauth:<provider>:<sub>") are modelled as tuples of their  *)
(* parts: providers and subs of the model hold no ':'.  Random draws       *)
(* (user ids, login codes) are fresh: the model leaves out collisions of   *)
(* 48 bit random ids.  MySQL runs in its default strict mode.              *)
(***************************************************************************)
StorageProviders == {"mysql", "redis"}

\* the user ids generateUserId draws in the storage and login parts
AccountIds == {0, 1, 65521}

\* OAuth providers ('email' is the magic-link provider tag) and subjects
OAuthProviders == {"google", "email"}
Emails == {"a@b.com", "c@d.org"}
Subs == Emails

\* TokenData values; Undef when the caller has no token
Tokens == {"tok1", Undef}

\* the secret the storage and login parts run with
SecretKey == "s3cret"

\* the prefixes randomBytes draws when a provider mints a session
SessionPrefixes == {[i \in 1..SESSION_PREFIX_LENGTH |-> 0], [i \in 1..SESSION_PREFIX_LENGTH |-> 255]}

\* sessions.id VARCHAR(20)
SessionIdColumnWidth == 20

EmptyMap == [x \in {} |-> Undef]

Put(f, k, v) == [x \in (DOMAIN f) \cup {k} |-> IF x = k THEN v ELSE f[x]]

Remove(f, k) == [x \in (DOMAIN f) \ {k} |-> f[x]]

Has(f, k) == k \in DOMAIN f

EmptyStore ==
    [sqlAccounts |-> EmptyMap, sqlSessions |-> EmptyMap, sqlOauth |-> EmptyMap,
     kvSession |-> EmptyMap, kvAccount |-> EmptyMap, kvOauth |-> EmptyMap, kvToken |-> EmptyMap]

\* JavaScript true and false as they are held in an object's field
JsTrue == "true"
JsFalse == "false"

\* type UserAccount; an optional field that is not set is Undef
UserAccount(userId, username, displayName, profilePic, email, emailVerified) ==
    [userId |-> userId, username |-> username, displayName |-> displayName,
     profilePic |-> profilePic, email |-> email, emailVerified |-> emailVerified]

\* a userId argument that is not given (undefined)
NoUserId == -1

\* "no account" (undefined) where a UserAccount is expected
NoAccount == UserAccount(NoUserId, Undef, Undef, Undef, Undef, Undef)

\* "no session" (undefined) where a Session is expected
NoSession == [sessionId |-> <<>>, user |-> NoAccount]

\* type Session
Session(sessionId, user) == [sessionId |-> sessionId, user |-> user]

\* a result of a storage operation
Result(st, ret) == [st |-> st, ret |-> ret, threw |-> FALSE]

\* a storage operation whose promise is rejected
Rejected(st, ret) == [st |-> st, ret |-> ret, threw |-> TRUE]

\* the optional fields of a UserAccount
OptionalFields == {"username", "displayName", "profilePic", "email", "emailVerified"}

\* JSON.stringify(account): the userId and the fields that are not undefined
JsonStringifyAccount(account) ==
    [userId |-> account.userId,
     fields |-> {<<k, account[k]>> : k \in {f \in OptionalFields : account[f] # Undef}}]

\* the value JSON.parse gives field k: undefined when the text holds no such field
JsonField(json, k) ==
    IF \E kv \in json.fields : kv[1] = k
    THEN (CHOOSE kv \in json.fields : kv[1] = k)[2]
    ELSE Undef

\* JSON.parse of an account's text
JsonParseAccount(json) ==
    UserAccount(json.userId, JsonField(json, "username"), JsonField(json, "displayName"),
                JsonField(json, "profilePic"), JsonField(json, "email"),
                JsonField(json, "emailVerified"))

\* JSON.stringify(session) and JSON.parse of it
JsonStringifySession(session) ==
    [sessionId |-> session.sessionId, user |-> JsonStringifyAccount(session.user)]

JsonParseSession(json) == Session(json.sessionId, JsonParseAccount(json.user))

\* SqlString.escape of an optional string bound to a column: undefined becomes NULL
SqlValue(v) == IF v = Undef THEN Null ELSE v

\* SqlString.escape of an optional boolean bound to the TINYINT column
SqlBoolean(v) == IF v = Undef THEN Null ELSE IF v = JsTrue THEN "1" ELSE "0"

\* JSON.stringify(token) bound to the TEXT column: undefined is stored as NULL
SqlToken(token) == IF token = Undef THEN Null ELSE token

(* ---- MySqlPassportProvider (src/lib/model.ts 141-299) ---- *)

\* accountToDBSchema
accountToDBSchema(account) ==
    [id |-> account.userId, username |-> SqlValue(account.username),
     display_name |-> SqlValue(account.displayName), picture |-> SqlValue(account.profilePic),
     email |-> SqlValue(account.email), email_verified |-> SqlBoolean(account.emailVerified)]

\* createAccount: INSERT INTO accounts; a duplicate primary key rejects
MySqlCreateAccount(st, account) ==
    IF Has(st.sqlAccounts, account.userId) THEN Rejected(st, Undef)
    ELSE Result([st EXCEPT !.sqlAccounts = Put(@, account.userId, accountToDBSchema(account))], Undef)

\* getAccountInfo: userId, displayName, username, profilePic of the row
MySqlGetAccountInfo(st, userId) ==
    IF Has(st.sqlAccounts, userId)
    THEN LET row == st.sqlAccounts[userId]
         IN  Result(st, UserAccount(userId, row.username, row.display_name, row.picture, Undef, Undef))
    ELSE Result(st, NoAccount)

\* queryOAuthMapping
MySqlQueryOAuthMapping(st, provider, sub) ==
    IF Has(st.sqlOauth, <<provider, sub>>)
    THEN MySqlGetAccountInfo(st, st.sqlOauth[<<provider, sub>>].user_id)
    ELSE Result(st, NoAccount)

\* saveToken: INSERT ... ON DUPLICATE KEY UPDATE token
MySqlSaveToken(st, userId, provider, sub, token) ==
    IF Has(st.sqlOauth, <<provider, sub>>)
    THEN Result([st EXCEPT !.sqlOauth[<<provider, sub>>].token = SqlToken(token)], Undef)
    ELSE Result([st EXCEPT !.sqlOauth =
                    Put(@, <<provider, sub>>, [user_id |-> userId, token |-> SqlToken(token)])], Undef)

\* saveSessionData: INSERT INTO sessions; any error (duplicate key, data too
\* long for the id column) is caught and answered false
MySqlSaveSessionData(st, session) ==
    IF Has(st.sqlSessions, session.sessionId) \/ Len(session.sessionId) > SessionIdColumnWidth
    THEN Result(st, FALSE)
    ELSE Result([st EXCEPT !.sqlSessions = Put(@, session.sessionId, [user_id |-> session.user.userId])], TRUE)

\* dataToSession of the first row of the join
dataToSession(ssid, row) ==
    Session(ssid, UserAccount(row.id, row.username, row.display_name, row.picture, Undef, Undef))

\* querySessionData: sessions joined with accounts WHERE s.id=? AND s.user_id=?
\* AND a.id=s.user_id (user_id = NULL matches no row)
MySqlQuerySessionData(st, sessionId, userId) ==
    IF sessionId = <<>> THEN Result(st, NoSession)
    ELSE IF /\ Has(st.sqlSessions, sessionId)
            /\ userId # NoUserId
            /\ st.sqlSessions[sessionId].user_id = userId
            /\ Has(st.sqlAccounts, userId)
         THEN Result(st, dataToSession(sessionId, st.sqlAccounts[userId]))
         ELSE Result(st, NoSession)

(* ---- RedisPassportProvider (src/lib/redis-provider.ts 1-155) ---- *)

RedisCreateAccount(st, account) ==
    Result([st EXCEPT !.kvAccount = Put(@, account.userId, JsonStringifyAccount(account))], Undef)

RedisGetAccountInfo(st, userId) ==
    IF Has(st.kvAccount, userId)
    THEN Result(st, JsonParseAccount(st.kvAccount[userId]))
    ELSE Result(st, NoAccount)

RedisQueryOAuthMapping(st, provider, sub) ==
    IF Has(st.kvOauth, <<provider, sub>>)
    THEN RedisGetAccountInfo(st, st.kvOauth[<<provider, sub>>].userId)
    ELSE Result(st, NoAccount)

\* saveToken: oauth:{provider}:{sub} -> {userId}, then
\* token:{provider}:{userId} -> {sub, token} (an undefined token is left out
\* of the text and reads back undefined)
RedisSaveToken(st, userId, provider, sub, token) ==
    Result([st EXCEPT !.kvOauth = Put(@, <<provider, sub>>, [userId |-> userId]),
                      !.kvToken = Put(@, <<provider, userId>>, [sub |-> sub, token |-> token])],
           Undef)

RedisSaveSessionData(st, session) ==
    Result([st EXCEPT !.kvSession = Put(@, session.sessionId, JsonStringifySession(session))], TRUE)

\* JavaScript truthiness of a userId argument: undefined and 0 are falsy
Truthy(userId) == userId # NoUserId /\ userId # 0

\* querySessionData: if (userId && session.user.userId !== userId) return undefined
RedisQuerySessionData(st, sessionId, userId) ==
    IF ~Has(st.kvSession, sessionId) THEN Result(st, NoSession)
    ELSE LET session == JsonParseSession(st.kvSession[sessionId])
         IN  IF Truthy(userId) /\ session.user.userId # userId
             THEN Result(st, NoSession)
             ELSE Result(st, session)

(* ---- tokens: loadToken, queryToken, queryProfile, disconnect ---- *)

\* queryProfile answers { sub } of the stored record, or undefined
OAuth2ProfileOf(sub) == [sub |-> sub]
NoProfile == OAuth2ProfileOf(Undef)

\* JSON.parse of the token column: NULL parses to null
JsonParseToken(text) == IF text = Null THEN "null" ELSE text

\* the rows of SELECT * FROM oauth WHERE user_id=? AND provider=?
MySqlTokenRows(st, userId, provider) ==
    {k \in DOMAIN st.sqlOauth : k[1] = provider /\ st.sqlOauth[k].user_id = userId}

\* MySQL loadToken: the token of rs[0].  The query has no ORDER BY, so any
\* row of the user may come first: the answers the call can give
MySqlLoadToken(st, userId, provider) ==
    IF MySqlTokenRows(st, userId, provider) = {} THEN {Result(st, Undef)}
    ELSE {Result(st, JsonParseToken(st.sqlOauth[k].token)) : k \in MySqlTokenRows(st, userId, provider)}

\* MySQL queryToken: WHERE sub=? AND provider=? is the primary key
MySqlQueryToken(st, provider, sub) ==
    IF Has(st.sqlOauth, <<provider, sub>>)
    THEN {Result(st, JsonParseToken(st.sqlOauth[<<provider, sub>>].token))}
    ELSE {Result(st, Undef)}

\* MySQL queryProfile: { sub: rs[0].sub } of the same unordered query
MySqlQueryProfile(st, provider, userId) ==
    IF MySqlTokenRows(st, userId, provider) = {} THEN {Result(st, NoProfile)}
    ELSE {Result(st, OAuth2ProfileOf(k[2])) : k \in MySqlTokenRows(st, userId, provider)}

\* Redis loadToken: the token of token:{provider}:{userId}
RedisLoadToken(st, userId, provider) ==
    IF Has(st.kvToken, <<provider, userId>>)
    THEN Result(st, st.kvToken[<<provider, userId>>].token)
    ELSE Result(st, Undef)

\* Redis queryToken: oauth:{provider}:{sub}, then loadToken of its userId
RedisQueryToken(st, provider, sub) ==
    IF Has(st.kvOauth, <<provider, sub>>)
    THEN RedisLoadToken(st, st.kvOauth[<<provider, sub>>].userId, provider)
    ELSE Result(st, Undef)

\* Redis queryProfile: { sub } of token:{provider}:{userId}
RedisQueryProfile(st, provider, userId) ==
    IF Has(st.kvToken, <<provider, userId>>)
    THEN Result(st, OAuth2ProfileOf(st.kvToken[<<provider, userId>>].sub))
    ELSE Result(st, NoProfile)

\* Redis disconnect: false without a profile; else the token key and the
\* oauth key of the profile's sub are deleted
RedisDisconnect(st, provider, userId) ==
    LET profile == RedisQueryProfile(st, provider, userId).ret
    IN  IF profile = NoProfile THEN Result(st, FALSE)
        ELSE Result([st EXCEPT !.kvToken = Remove(@, <<provider, userId>>),
                               !.kvOauth = Remove(@, <<provider, profile.sub>>)], TRUE)

\* the answers loadToken, queryToken and queryProfile can give on a provider
loadToken(p, st, userId, provider) ==
    IF p = "mysql" THEN MySqlLoadToken(st, userId, provider) ELSE {RedisLoadToken(st, userId, provider)}

queryToken(p, st, provider, sub) ==
    IF p = "mysql" THEN MySqlQueryToken(st, provider, sub) ELSE {RedisQueryToken(st, provider, sub)}

queryProfile(p, st, provider, userId) ==
    IF p = "mysql" THEN MySqlQueryProfile(st, provider, userId) ELSE {RedisQueryProfile(st, provider, userId)}

(* ---- the provider of the build ---- *)

createAccount(p, st, account) ==
    IF p = "mysql" THEN MySqlCreateAccount(st, account) ELSE RedisCreateAccount(st, account)

getAccountInfo(p, st, userId) ==
    IF p = "mysql" THEN MySqlGetAccountInfo(st, userId) ELSE RedisGetAccountInfo(st, userId)

queryOAuthMapping(p, st, provider, sub) ==
    IF p = "mysql" THEN MySqlQueryOAuthMapping(st, provider, sub)
    ELSE RedisQueryOAuthMapping(st, provider, sub)

saveToken(p, st, userId, provider, sub, token) ==
    IF p = "mysql" THEN MySqlSaveToken(st, userId, provider, sub, token)
    ELSE RedisSaveToken(st, userId, provider, sub, token)

saveSessionData(p, st, session) ==
    IF p = "mysql" THEN MySqlSaveSessionData(st, session) ELSE RedisSaveSessionData(st, session)

querySessionData(p, st, sessionId, userId) ==
    IF p = "mysql" THEN MySqlQuerySessionData(st, sessionId, userId)
    ELSE RedisQuerySessionData(st, sessionId, userId)

\* generateSession of both providers: mint, save (the result of the save is
\* not looked at), return the session
generateSession(b, st, user, bytes) ==
    LET session == Session(generateSessionId(b.ver, SecretKey, user.userId, bytes), user)
    IN  Result(saveSessionData(b.provider, st, session).st, session)

-----------------------------------------------------------------------------
(***************************************************************************)
(* PassportModel                                                           *)
(***************************************************************************)
\* truthiness of an optional string: undefined and "" are falsy
StrTruthy(v) == v # Undef /\ v # ""

\* type OAuth2Profile
Profile(sub, email, email_verified, name, picture) ==
    [sub |-> sub, email |-> email, email_verified |-> email_verified, name |-> name,
     picture |-> picture]

\* an account literal whose displayName is the profile's name, whatever it is
NewAccountNameOnly(provider, userInfo, userId) ==
    UserAccount(userId, Undef, userInfo.name,
                IF StrTruthy(userInfo.picture) THEN userInfo.picture ELSE Undef,
                IF StrTruthy(userInfo.email) THEN userInfo.email ELSE Undef,
                IF StrTruthy(userInfo.email)
                THEN (IF userInfo.email_verified = JsTrue THEN JsTrue ELSE JsFalse)
                ELSE Undef)

\* the account getOrCreateAccount builds for a profile it has no link for
NewAccount(provider, userInfo, userId) ==
    UserAccount(userId, Undef,
                IF StrTruthy(userInfo.name) THEN userInfo.name ELSE provider \o "-" \o userInfo.sub,
                IF StrTruthy(userInfo.picture) THEN userInfo.picture ELSE Undef,
                IF StrTruthy(userInfo.email) THEN userInfo.email ELSE Undef,
                IF StrTruthy(userInfo.email)
                THEN (IF userInfo.email_verified = JsTrue THEN JsTrue ELSE JsFalse)
                ELSE Undef)

\* what getOrCreateAccount answers: the store, the account, whether it
\* rejected, and whether it called createAccount
Outcome(r, account, created) ==
    [st |-> r.st, ret |-> account, threw |-> r.threw, created |-> created]

\* the link step after createAccount in src/lib/model.ts: if (token) saveToken(..)
LinkNewAccountIfToken(p, st, userId, provider, sub, token) ==
    IF token # Undef THEN saveToken(p, st, userId, provider, sub, token) ELSE Result(st, Undef)

\* the link step after createAccount in part_003: saveToken(..) whatever the token
LinkNewAccountAlways(p, st, userId, provider, sub, token) ==
    saveToken(p, st, userId, provider, sub, token)

\* the link step of the build
LinkNewAccount(b, st, userId, provider, sub, token) ==
    IF b.ver = "checksum" THEN LinkNewAccountIfToken(b.provider, st, userId, provider, sub, token)
    ELSE LinkNewAccountAlways(b.provider, st, userId, provider, sub, token)

\* a found branch that saves the token whatever it is
RefreshTokenAlways(p, st, userId, provider, sub, token) ==
    saveToken(p, st, userId, provider, sub, token)

\* the found branch: if (token && userInfo.sub) saveToken(acc.userId, ..)
RefreshToken(p, st, userId, provider, sub, token) ==
    IF token # Undef /\ StrTruthy(sub) THEN saveToken(p, st, userId, provider, sub, token)
    ELSE Result(st, Undef)

\* PassportModel.getOrCreateAccount; userId is the id generateUserId draws
getOrCreateAccount(b, st, provider, token, userInfo, userId) ==
    LET acc == queryOAuthMapping(b.provider, st, provider, userInfo.sub).ret
    IN  IF acc # NoAccount
        THEN Outcome(RefreshToken(b.provider, st, acc.userId, provider, userInfo.sub, token), acc, FALSE)
        ELSE LET account == NewAccount(provider, userInfo, userId)
                 made == createAccount(b.provider, st, account)
             IN  IF made.threw THEN Outcome(made, NoAccount, TRUE)
                 ELSE Outcome(LinkNewAccount(b, made.st, userId, provider, userInfo.sub, token),
                              account, TRUE)

\* generateUserId: a fresh id
FreshUserIds(b, st) ==
    AccountIds \ (IF b.provider = "mysql" THEN DOMAIN st.sqlAccounts ELSE DOMAIN st.kvAccount)

\* the record of a call of the storage part: none yet
NoCall == [op |-> "none", provider |-> Undef, sub |-> Undef, token |-> Undef, userId |-> NoUserId,
           sessionId |-> <<>>, account |-> NoAccount, session |-> NoSession,
           created |-> FALSE, threw |-> FALSE, owner |-> NoUserId,
           userInfo |-> Profile(Undef, Undef, Undef, Undef, Undef)]

-----------------------------------------------------------------------------
(***************************************************************************)
(* AutoMailer (src/lib/login.ts 51-87).  Transport i of the model is       *)
(* index i - 1 of the code's arrays.  Time is counted in units of          *)
(* 600000 ms, so the factor 2^((now - lastEvaluated) / 600000) is a power  *)
(* of two with a natural exponent.                                         *)
(***************************************************************************)
\* the number of configured mail transports (config.emailConfig.length)
NumMailers == 2

Transports == 1..NumMailers

\* Math.pow(2, n) for a natural n
RECURSIVE Pow2(_)
Pow2(n) == IF n = 0 THEN 1 ELSE 2 * Pow2(n - 1)

\* the constructor: scores all 0, orders the identity, lastEvaluated = Date.now()
NewAutoMailer(t) ==
    [scores |-> [i \in Transports |-> 0], orders |-> [i \in Transports |-> i], lastEvaluated |-> t]

\* insert x into the sorted sequence s, after every element the comparator
\* (a, b) => scores[b] - scores[a] does not put behind x
RECURSIVE InsertByScore(_, _, _)
InsertByScore(s, x, scores) ==
    IF s = <<>> THEN <<x>>
    ELSE IF scores[x] > scores[Head(s)] THEN <<x>> \o s
    ELSE <<Head(s)>> \o InsertByScore(Tail(s), x, scores)

\* a reevaluate that leaves the try-order as it is
KeepOrder(orders, scores) == orders

\* this.orders.sort((a, b) => this.scores[b] - this.scores[a]): a stable sort
RECURSIVE SortByScore(_, _)
SortByScore(orders, scores) ==
    IF orders = <<>> THEN <<>>
    ELSE InsertByScore(SortByScore(SubSeq(orders, 1, Len(orders) - 1), scores),
                       orders[Len(orders)], scores)

\* the scores after the loop and the increment of reevaluate(i)
Rescore(scores, i, elapsed) ==
    [j \in DOMAIN scores |->
        IF j > i THEN scores[j] * Pow2(elapsed)
        ELSE IF j = i THEN scores[j] + 1
        ELSE scores[j]]

\* reevaluate(i) at time t
reevaluate(m, i, t) ==
    LET scores == Rescore(m.scores, i, t - m.lastEvaluated)
    IN  [scores |-> scores, orders |-> SortByScore(m.orders, scores), lastEvaluated |-> t]

\* sendMail from loop position i on; ok[k] tells whether the send attempted at
\* loop position k succeeds.  Answers the mailer afterwards, whether a send
\* succeeded, and the transports attempted in turn.
RECURSIVE SendLoop(_, _, _, _, _)
SendLoop(m, i, ok, t, tried) ==
    IF i > NumMailers THEN [m |-> m, delivered |-> FALSE, tried |-> tried, threw |-> FALSE]
    ELSE IF ok[i]
    THEN [m |-> m, delivered |-> TRUE, tried |-> Append(tried, m.orders[i]), threw |-> FALSE]
    ELSE SendLoop(reevaluate(m, m.orders[i], t), i + 1, ok, t, Append(tried, m.orders[i]))

\* AutoMailer.sendMail: resolves whether or not a send succeeded
sendMail(m, ok, t) == SendLoop(m, 1, ok, t, <<>>)

\* the outcomes of the sends of one sendMail call, by loop position; the
\* loop ends with the first send that succeeds, so the positions after it
\* are never asked
SendOutcomes == {ok \in [Transports -> BOOLEAN] : \A i, j \in Transports : ok[i] /\ i < j => ok[j]}

\* no call of sendMail yet
NoSend ==
    [calls |-> 0, tried |-> <<>>, delivered |-> FALSE, failures |-> [i \in Transports |-> 0],
     successes |-> [i \in Transports |-> 0]]

\* the mailer as the constructor leaves it, at time 0
MailerParked ==
    /\ mailer = NewAutoMailer(0)
    /\ now = 0
    /\ mailed = NoSend

-----------------------------------------------------------------------------
(***************************************************************************)
(* LRUCache and DecayLimiter of @evolplus/evo-utils, whose code is not     *)
(* part of the sources: modelled from sections 4.2 and 4.3 of the          *)
(* specification.  No time passes between the requests of the login part   *)
(* ("rapid succession"), so a limiter's counter only counts hits.          *)
(***************************************************************************)
\* position of key k in the cache, 0 when absent
RECURSIVE LruIndex(_, _, _)
LruIndex(cache, k, i) ==
    IF i > Len(cache) THEN 0
    ELSE IF cache[i].key = k THEN i
    ELSE LruIndex(cache, k, i + 1)

LruHas(cache, k) == LruIndex(cache, k, 1) # 0

\* the value held for k (the key must be present)
LruValue(cache, k) == cache[LruIndex(cache, k, 1)].value

\* the cache without key k
LruDelete(cache, k) == SelectSeq(cache, LAMBDA e : e.key # k)

\* the cache after get(k): a present entry becomes the most recently used
LruTouch(cache, k) ==
    IF LruHas(cache, k)
    THEN Append(LruDelete(cache, k), [key |-> k, value |-> LruValue(cache, k)])
    ELSE cache

\* put(k, v): the entry becomes the most recently used; beyond the capacity
\* the least recently used entry is evicted
LruPut(cache, capacity, k, v) ==
    LET added == Append(LruDelete(cache, k), [key |-> k, value |-> v])
    IN  IF Len(added) > capacity THEN Tail(added) ELSE added

\* DecayLimiter: the counter of a key after a hit
LimiterHit(counters, key) == [counters EXCEPT ![key] = @ + 1]

\* DecayLimiter: a hit is admitted while the counter does not exceed the threshold
LimiterAdmits(counters, key, threshold) == counters[key] <= threshold

-----------------------------------------------------------------------------
(***************************************************************************)
(* expressMiddleware: src/lib/index.ts 25-69 (the same in part_001 31-75)  *)
(* and the later one of part_000 39-88.                                    *)
(***************************************************************************)
\* the builds of the middleware
Middlewares == {"index.ts", "part_000"}

\* the capacity of the session cache (SESSION_CACHE_CAPACITY)
SessionCacheCapacity == 1

\* parseInt of a text that is not a number
NaN == -2

\* the user-id cookies of the requests; Undef is a request without the cookie
UserIdCookies == {"0", "1", "65521", "abc", Undef}

\* parseInt(req.cookies[COOKIE_NAME_USER_ID])
parseInt(text) ==
    CASE text = "0" -> 0
      [] text = "1" -> 1
      [] text = "65521" -> 65521
      [] OTHER -> NaN

\* truthiness of a number: 0 and NaN are falsy
NumTruthy(n) == n # 0 /\ n # NaN

\* line 36: req.cookies && req.cookies[epssid] && req.cookies[epuid]
HasCookies(sid, uid) == sid # <<>> /\ StrTruthy(uid)

\* what the middleware has done with a request: the cache afterwards, the
\* session attached to the request, and the number of calls of next()
Handled(cache, session, nexts, path) ==
    [cache |-> cache, session |-> session, nexts |-> nexts, path |-> path]

\* lines 47-58 of index.ts: the promise of querySessionData settles; fails
\* tells whether the storage rejects the query
QuerySettled(b, st, cache, sid, userId, fails) ==
    LET r == querySessionData(b.provider, st, sid, userId)
    IN  IF fails \/ r.threw THEN Handled(cache, NoSession, 1, "storage error")
        ELSE IF r.ret # NoSession
        THEN Handled(LruPut(cache, SessionCacheCapacity, r.ret.sessionId, r.ret), r.ret, 1,
                     "storage hit")
        ELSE Handled(cache, NoSession, 1, "storage miss")

\* the number of calls of next() for cookies that do not validate: line 65-67
\* of index.ts calls it, part_000 has no such call
NextsWhenInvalid(variant) == IF variant = "index.ts" THEN 1 ELSE 0

\* the handler expressMiddleware returns, from the arrival of the request
\* until next() has been called and the promise, if any, has settled
expressMiddleware(variant, b, st, cache, sid, uid, fails) ==
    IF ~HasCookies(sid, uid) THEN Handled(cache, NoSession, 1, "no cookies")
    ELSE LET userId == parseInt(uid)
             touched == LruTouch(cache, sid)
         IN  IF LruHas(cache, sid)
             THEN Handled(touched, LruValue(cache, sid), 1, "cache hit")
             ELSE IF ~NumTruthy(userId)
             THEN Handled(touched, NoSession, NextsWhenInvalid(variant), "invalid")
             ELSE LET valid == validateSessionId(b.ver, SecretKey, sid, userId)
                  IN  IF valid = "thrown" THEN Handled(touched, NoSession, 1, "thrown")
                      ELSE IF valid = "true"
                      THEN QuerySettled(b, st, touched, sid, userId, fails)
                      ELSE Handled(touched, NoSession, NextsWhenInvalid(variant), "invalid")

\* no request handled yet
NoWeb ==
    [variant |-> "index.ts", cache |-> <<>>, sid |-> <<>>, uid |-> Undef, session |-> NoSession,
     nexts |-> 0, path |-> "none"]

-----------------------------------------------------------------------------
(***************************************************************************)
(* The magic-link route GET {prefix}login (src/lib/login.ts 89-163)        *)
(***************************************************************************)
\* the code cache's capacity (config.codeCapacity)
CodeCapacity == 1

\* config.ipLimiter, config.emailLimiter: a limiter that is not configured,
\* and the thresholds of the ones that are
NoLimiter == 0
IpThresholds == {1}
EmailThresholds == {1, 2}

\* the codes generateRandomCode draws, in the order it draws them: a drawn
\* code differs from the ones drawn before
CodeNames == <<"c1", "c2">>

Codes == {CodeNames[i] : i \in DOMAIN CodeNames}

IPs == {"10.0.0.1", "10.0.0.2"}

\* the email parameters of the requests, each with its characters
EmailText(email) ==
    CASE email = "a@b.com" -> <<"a", "@", "b", ".", "c", "o", "m">>
      [] email = "c@d.org" -> <<"c", "@", "d", ".", "o", "r", "g">>
      [] email = "a@b" -> <<"a", "@", "b">>
      [] OTHER -> <<>>

RequestEmails == Emails \cup {"a@b"}

\* a character of the class [^\s@]
NotSpaceNorAt(c) == c # " " /\ c # "@"

\* /^[^\s@]+@[^\s@]+\.[^\s@]+$/.test(email)
isValidEmailAddress(text) ==
    \E i \in 1..Len(text), j \in 1..Len(text) :
        /\ 1 < i /\ i + 1 < j /\ j < Len(text)
        /\ text[i] = "@" /\ text[j] = "."
        /\ \A k \in (1..Len(text)) \ {i} : NotSpaceNorAt(text[k])

\* type LoginRequest, and the undefined loginCodes.get answers for an absent code
LoginRequest(email, ip) == [email |-> email, ip |-> ip]
NoLoginRequest == LoginRequest(Undef, Undef)

\* a request of the route: whether its Origin header is https://{origin},
\* and its code, email and address
Req(origin, code, email, ip) == [origin |-> origin, code |-> code, email |-> email, ip |-> ip]

\* an Origin check that lets every request pass
NotForbidden(req) == FALSE

\* line 98: the request is answered 403 Forbidden
Forbidden(req) == ~req.origin /\ ~StrTruthy(req.code)

\* line 107: the request is answered MSG_LOGIN_INVALID_EMAIL
InvalidEmail(req) == ~StrTruthy(req.email) \/ ~isValidEmailAddress(EmailText(req.email))

\* a limiter stage that hits the limiter and lets every request go on
LimiterStageAdmitsAll(threshold, counters, key) ==
    IF threshold # NoLimiter
    THEN [counters |-> LimiterHit(counters, key), admitted |-> TRUE]
    ELSE [counters |-> counters, admitted |-> TRUE]

\* lines 112 and 117: a configured limiter is hit; answers its counters and
\* whether the request goes on
LimiterStage(threshold, counters, key) ==
    IF threshold # NoLimiter
    THEN [counters |-> LimiterHit(counters, key),
          admitted |-> LimiterAdmits(LimiterHit(counters, key), key, threshold)]
    ELSE [counters |-> counters, admitted |-> TRUE]

\* line 123: loginCodes.get(code)
LookupCode(cache, code) == IF LruHas(cache, code) THEN LruValue(cache, code) ELSE NoLoginRequest

\* a match that does not look at the address of the request
CodeMatchesEmailOnly(lr, req) == lr # NoLoginRequest /\ lr.email = req.email

\* line 124: lr && lr.email == email && lr.ip == req.ip
CodeMatches(lr, req) == lr # NoLoginRequest /\ lr.email = req.email /\ lr.ip = req.ip

\* the profile of a magic-link login (lines 125 and 127)
EmailProfile(email) == Profile(email, email, JsTrue, email, Undef)

\* lines 125-131: the account, the session, the callback, the deletion of the code
Redeem(b, st, cache, req, userId, bytes) ==
    LET got == getOrCreateAccount(b, st, "email", Undef, EmailProfile(req.email), userId)
        made == generateSession(b, got.st, got.ret, bytes)
    IN  IF got.threw
        THEN [st |-> got.st, cache |-> LruTouch(cache, req.code), kind |-> "unanswered",
              session |-> NoSession]
        ELSE [st |-> made.st, cache |-> LruDelete(LruTouch(cache, req.code), req.code),
              kind |-> "redirect", session |-> made.ret]

\* lines 149-161: the answer after the dispatch of the mail
IssueAnswer(sent) == IF sent.threw THEN "MSG_LOGIN_SERVER_ERROR" ELSE "MSG_LOGIN_MAILED"

\* an issuance that stores the code and evicts none
IssueKeepsAll(cache, m, req, code, ok, t) ==
    LET sent == sendMail(m, ok, t)
    IN  [cache |-> Append(cache, [key |-> code, value |-> LoginRequest(req.email, req.ip)]),
         mailer |-> sent.m, tried |-> sent.tried, delivered |-> sent.delivered,
         kind |-> IssueAnswer(sent)]

\* lines 139-161: a new code is stored and mailed
Issue(cache, m, req, code, ok, t) ==
    LET sent == sendMail(m, ok, t)
    IN  [cache |-> LruPut(cache, config.codeCapacity, code, LoginRequest(req.email, req.ip)),
         mailer |-> sent.m, tried |-> sent.tried, delivered |-> sent.delivered,
         kind |-> IssueAnswer(sent)]

\* the number of requests a run of the route serves
MaxRequests == 3

\* no request served yet
NoResp ==
    [kind |-> "none", req |-> Req(FALSE, Undef, Undef, Undef), session |-> NoSession,
     entry |-> NoLoginRequest, spent |-> FALSE, stored |-> Undef, tried |-> <<>>,
     delivered |-> FALSE,
     nth |-> 0, ipClean |-> TRUE, written |-> FALSE]

NoHistory ==
    [issued |-> 0, redeemed |-> {}, count |-> [e \in Emails |-> 0],
     ipRejected |-> [e \in Emails |-> FALSE]]

\* the middleware and the concurrent callers where they are not used
OthersParked ==
    /\ web = NoWeb
    /\ procs = <<>>

\* the state of the parts the route does not use
Parked ==
    /\ codec = CodecIdle
    /\ call = NoCall
    /\ prev = NoCall

\* the state of the route's own parts where they are not used
LoginParked ==
    /\ config = [ipLimiter |-> NoLimiter, emailLimiter |-> NoLimiter, codeCapacity |-> CodeCapacity]
    /\ loginCodes = <<>>
    /\ ipLimiter = [ip \in IPs |-> 0]
    /\ emailLimiter = [e \in Emails |-> 0]
    /\ resp = NoResp
    /\ hist = NoHistory

\* the database when the route is set up: empty, or as a magic-link login
\* of an earlier run of the server has left it
StoresAtSetup(b) ==
    {EmptyStore,
     getOrCreateAccount(b, EmptyStore, "email", Undef, EmailProfile("a@b.com"), 1).st}

\* the deployments the route is run in: every build without limiters, on
\* either database, and the newest build with every choice of limiters
Deployments ==
    UNION {{[build |-> b, config |-> [ipLimiter |-> NoLimiter, emailLimiter |-> NoLimiter,
                        codeCapacity |-> CodeCapacity],
             store |-> db] : db \in StoresAtSetup(b)} :
           b \in [provider : StorageProviders, ver : ModelVersions]}
    \cup {[build |-> [provider |-> "redis", ver |-> "hmac"], config |-> cfg, store |-> EmptyStore] :
        cfg \in [ipLimiter : {NoLimiter} \cup IpThresholds,
                 emailLimiter : {NoLimiter} \cup EmailThresholds,
                 codeCapacity : {CodeCapacity}]}

LoginInit ==
    /\ \E d \in Deployments :
          /\ build = d.build
          /\ config = d.config
          /\ store = d.store
    /\ steps = 0
    /\ loginCodes = <<>>
    /\ ipLimiter = [ip \in IPs |-> 0]
    /\ emailLimiter = [e \in Emails |-> 0]
    /\ MailerParked
    /\ resp = NoResp
    /\ hist = NoHistory
    /\ Parked
    /\ OthersParked

\* what the handler leaves of a request it answers before the limiters
Early(kind, req) ==
    /\ resp' = [NoResp EXCEPT !.kind = kind, !.req = req,
                              !.entry = LookupCode(loginCodes, req.code),
                              !.spent = req.code \in hist.redeemed]
    /\ UNCHANGED <<store, loginCodes, ipLimiter, emailLimiter, mailer, hist>>

\* the history after a request that reached the limiters: an issuance
\* request is counted for its email
Counted(req, ipAdmitted) ==
    IF StrTruthy(req.code) THEN hist
    ELSE [hist EXCEPT !.count[req.email] = @ + 1,
                      !.ipRejected[req.email] = @ \/ ~ipAdmitted]

\* app.get(`${prefix}login`, ...): one request, served from its arrival to
\* its answer.  userId and bytes are the draws of generateUserId and
\* randomBytes, ok the outcomes of the sends; the code generateRandomCode
\* draws is the next of names; budget is the number of requests of the run.
Handle(budget, names, req, userId, bytes, ok) ==
    /\ steps < budget
    /\ steps' = steps + 1
    /\ UNCHANGED <<build, config, now, mailed, codec, call, prev, xVars>>
    /\ IF Forbidden(req) THEN Early("Forbidden", req)
       ELSE IF InvalidEmail(req) THEN Early("MSG_LOGIN_INVALID_EMAIL", req)
       ELSE
       LET ipStage == LimiterStage(config.ipLimiter, ipLimiter, req.ip)
           emailStage == LimiterStage(config.emailLimiter, emailLimiter, req.email)
           lr == LookupCode(loginCodes, req.code)
           seen == [NoResp EXCEPT !.req = req, !.entry = lr, !.spent = req.code \in hist.redeemed,
                                  !.nth = Counted(req, ipStage.admitted).count[req.email],
                                  !.ipClean = ~hist.ipRejected[req.email]]
       IN  /\ ipLimiter' = ipStage.counters
           /\ hist' = IF ~ipStage.admitted \/ ~emailStage.admitted \/ ~StrTruthy(req.code)
                      THEN [Counted(req, ipStage.admitted) EXCEPT
                               !.issued = IF ipStage.admitted /\ emailStage.admitted
                                          THEN @ + 1 ELSE @]
                      ELSE IF CodeMatches(lr, req)
                      THEN [hist EXCEPT !.redeemed = @ \cup {req.code}]
                      ELSE hist
           /\ IF ~ipStage.admitted
              THEN /\ resp' = [seen EXCEPT !.kind = "MSG_LOGIN_RATE_LIMIT_EXCEEDED"]
                   /\ UNCHANGED <<store, loginCodes, emailLimiter, mailer>>
              ELSE /\ emailLimiter' = emailStage.counters
                   /\ IF ~emailStage.admitted
                      THEN /\ resp' = [seen EXCEPT !.kind = "MSG_LOGIN_RATE_LIMIT_EXCEEDED"]
                           /\ UNCHANGED <<store, loginCodes, mailer>>
                      ELSE IF StrTruthy(req.code)
                      THEN IF CodeMatches(lr, req)
                           THEN LET r == Redeem(build, store, loginCodes, req, userId, bytes)
                                IN  /\ store' = r.st
                                    /\ loginCodes' = r.cache
                                    /\ resp' = [seen EXCEPT !.kind = r.kind, !.session = r.session,
                                                            !.written = r.st # store]
                                    /\ UNCHANGED mailer
                           ELSE /\ loginCodes' = LruTouch(loginCodes, req.code)
                                /\ resp' = [seen EXCEPT !.kind = "Invalid or expired code!"]
                                /\ UNCHANGED <<store, mailer>>
                      ELSE /\ hist.issued < Len(names)
                           /\ LET r == Issue(loginCodes, mailer, req, names[hist.issued + 1],
                                             ok, now)
                              IN  /\ loginCodes' = r.cache
                                  /\ mailer' = r.mailer
                                  /\ resp' = [seen EXCEPT !.kind = r.kind,
                                                          !.stored = names[hist.issued + 1],
                                                          !.tried = r.tried,
                                                          !.delivered = r.delivered]
                                  /\ UNCHANGED store

\* a request of the route as it is deployed
Login(req, userId, bytes, ok) == Handle(MaxRequests, CodeNames, req, userId, bytes, ok)

\* the requests: a request that carries a code is a followed link, which has
\* no Origin header; one followed link has a code parameter that is empty
Requests ==
    {Req(origin, Undef, email, ip) : origin \in BOOLEAN, email \in RequestEmails, ip \in IPs}
    \cup {Req(FALSE, code, email, ip) : code \in Codes, email \in RequestEmails, ip \in IPs}
    \cup {Req(FALSE, "", "a@b.com", "10.0.0.1")}

\* the draws a request can use: the ids and prefixes of a redemption, the
\* outcomes of the sends of an issuance
Redeems(req) == StrTruthy(req.code) /\ CodeMatches(LookupCode(loginCodes, req.code), req)
\* the sends of an issuance all succeed or all fail; a dispatch that fails
\* over to a later transport is exercised on the mailer alone
LoginOutcomes == {[i \in Transports |-> b] : b \in BOOLEAN}
UserIdDraws(req) == IF Redeems(req) THEN FreshUserIds(build, store) ELSE {NoUserId}
PrefixDraws(req) == IF Redeems(req) THEN SessionPrefixes ELSE {<<>>}
OutcomeDraws(req) == IF StrTruthy(req.code) THEN {[i \in Transports |-> TRUE]} ELSE LoginOutcomes

LoginNext ==
    \E req \in Requests :
        \E userId \in UserIdDraws(req), bytes \in PrefixDraws(req), ok \in OutcomeDraws(req) :
            Login(req, userId, bytes, ok)

SpecLogin == LoginInit /\ [][LoginNext]_vars

\* the answers that refuse a request
Refusals ==
    {"Forbidden", "MSG_LOGIN_INVALID_EMAIL", "MSG_LOGIN_RATE_LIMIT_EXCEEDED",
     "Invalid or expired code!"}

\* C4: once a code has been redeemed, every later request that carries it is
\* answered 'Invalid or expired code!' and mints no session.
C4_SpentCodeInvalid ==
    resp.spent => (resp.kind = "Invalid or expired code!" /\ resp.session = NoSession)

\* C5: a request mints a session only if its code is in the cache with the
\* request's email and the request's IP; a request whose code is in the cache
\* for another IP or another email is refused, and the store stays as it was.
C5_RedeemOnlyOnMatch ==
    /\ (resp.session # NoSession \/ resp.kind = "redirect")
          => (/\ resp.entry # NoLoginRequest
              /\ resp.entry.email = resp.req.email
              /\ resp.entry.ip = resp.req.ip)
    /\ (/\ resp.entry # NoLoginRequest
        /\ (resp.entry.ip # resp.req.ip \/ resp.entry.email # resp.req.email))
          => (resp.kind \in Refusals /\ resp.session = NoSession /\ ~resp.written)

C5_Witness ==
    /\ resp.entry # NoLoginRequest
    /\ resp.entry.email = resp.req.email
    /\ resp.entry.ip # resp.req.ip
    /\ resp.kind = "Invalid or expired code!"
    /\ resp.session = NoSession

\* C6: the session of a redeemed code belongs to an account whose email is
\* the request's email and whose emailVerified is true, and its token
\* verifies for the account's userId.
C6_SessionOfVerifiedEmail ==
    resp.kind = "redirect"
        => (/\ resp.session.user.email = resp.req.email
            /\ resp.session.user.emailVerified = JsTrue
            /\ validateSessionId(build.ver, SecretKey, resp.session.sessionId,
                                 resp.session.user.userId) = "true")

\* the request proceeded past the limiters
Proceeded == resp.kind \in {"redirect", "Invalid or expired code!", "MSG_LOGIN_MAILED",
                            "MSG_LOGIN_SERVER_ERROR", "unanswered"}

\* both limiters have admitted the hit of the last request
BothAdmitted ==
    /\ config.ipLimiter # NoLimiter => ipLimiter[resp.req.ip] <= config.ipLimiter
    /\ config.emailLimiter # NoLimiter => emailLimiter[resp.req.email] <= config.emailLimiter

\* the last request is an issuance request for its email beyond the N-th
BeyondThreshold ==
    /\ config.emailLimiter # NoLimiter
    /\ ~StrTruthy(resp.req.code)
    /\ resp.nth > config.emailLimiter

\* the request is answered with the rate-limit message, stores no code and
\* dispatches no mail
RateLimited ==
    /\ resp.kind = "MSG_LOGIN_RATE_LIMIT_EXCEEDED"
    /\ resp.stored = Undef
    /\ resp.tried = <<>>

C9_MailedOnlyIfAccepted ==
    /\ resp.kind = "MSG_LOGIN_MAILED" => resp.delivered
    /\ (resp.stored # Undef /\ ~resp.delivered) => resp.kind = "MSG_LOGIN_SERVER_ERROR"

\* the entries of a cache, whatever their recency
Contents(cache) == {cache[i] : i \in DOMAIN cache}

\* C15: a redemption request (a valid email, a code) whose code is absent
\* from the cache, or whose email or IP does not match the stored request,
\* is answered 'Invalid or expired code' and mutates no state: the contents
\* of the code cache, both limiters' counters, the mailer and the storage
\* are after the request what they were before it.
C15_MismatchMutatesNothing ==
    [][(/\ StrTruthy(resp'.req.code)
        /\ ~InvalidEmail(resp'.req)
        /\ ~CodeMatches(resp'.entry, resp'.req))
       => (/\ resp'.kind = "Invalid or expired code!"
           /\ Contents(loginCodes') = Contents(loginCodes)
           /\ ipLimiter' = ipLimiter
           /\ emailLimiter' = emailLimiter
           /\ mailer' = mailer
           /\ store' = store)]_vars

\* the request is turned away by the email limiter: the IP limiter admits
\* it and the answer is the rate-limit message
RejectedByEmailLimiter(req, answer) ==
    /\ answer = "MSG_LOGIN_RATE_LIMIT_EXCEEDED"
    /\ LimiterStage(config.ipLimiter, ipLimiter, req.ip).admitted

\* C16: an issuance request (no code) rejected for an invalid email or by a
\* limiter stores no code, sends no mail and writes nothing to the storage,
\* and one rejected by the email limiter leaves the IP limiter's counters
\* unchanged.
C16_RejectedIssuanceNoEffect ==
    [][(/\ ~StrTruthy(resp'.req.code)
        /\ resp'.kind \in {"MSG_LOGIN_INVALID_EMAIL", "MSG_LOGIN_RATE_LIMIT_EXCEEDED"})
       => (/\ loginCodes' = loginCodes
           /\ mailer' = mailer
           /\ store' = store
           /\ RejectedByEmailLimiter(resp'.req, resp'.kind) => ipLimiter' = ipLimiter)]_vars

\* C27: a code stored by an issuance request stays valid whether or not its
\* mail was delivered: a redemption request with that code, the same email
\* and the same IP, made while the code is in the cache, is answered with
\* the redirect and a session.
C27_IssuedCodeRedeemable ==
    (StrTruthy(resp.req.code) /\ CodeMatches(resp.entry, resp.req))
    => (resp.kind = "redirect" /\ resp.session # NoSession)

\* the request answered last carried a code that was in the cache, with an
\* email or an address other than the stored ones
WrongAttempt(r) ==
    StrTruthy(r.req.code) /\ r.entry # NoLoginRequest /\ ~CodeMatches(r.entry, r.req)

\* C28: a redemption attempt with the right code but a wrong email or a
\* wrong IP does not consume the code: the stored LoginRequest is still in
\* the cache, unaltered, and the next request, when it carries the code
\* with the stored email and IP, mints a session.
C28_MismatchKeepsCode ==
    [][/\ WrongAttempt(resp') => LookupCode(loginCodes', resp'.req.code) = resp'.entry
       /\ (/\ WrongAttempt(resp)
           /\ resp'.req = Req(FALSE, resp.req.code, resp.entry.email, resp.entry.ip))
          => (resp'.kind = "redirect" /\ resp'.session # NoSession)]_vars

\* C29: a request that carries a code is served independently of the rate
\* limiting: it hits neither the IP limiter nor the email limiter, and when
\* the code is in the cache with the email and IP of the request it mints a
\* session whatever the counters of the limiters.
C29_RedemptionNotRateLimited ==
    [][StrTruthy(resp'.req.code)
       => (/\ ipLimiter' = ipLimiter
           /\ emailLimiter' = emailLimiter
           /\ CodeMatches(resp'.entry, resp'.req)
                 => (resp'.kind = "redirect" /\ resp'.session # NoSession))]_vars

\* the answer 403 that changes nothing: no limiter counts the request, no
\* code is stored, no mail is sent, nothing is written to the database
ForbiddenAndUntouched ==
    /\ resp'.kind = "Forbidden"
    /\ ipLimiter' = ipLimiter /\ emailLimiter' = emailLimiter
    /\ loginCodes' = loginCodes /\ mailer' = mailer /\ store' = store
    /\ resp'.tried = <<>> /\ resp'.stored = Undef

\* C38 as stated: a request without a code parameter whose Origin header is
\* not the configured one is answered 403 and changes nothing; a request
\* with a code parameter, whatever its value, is not answered 403.
C38_OriginCheckAsStated ==
    [][steps' = steps + 1
       => (/\ (resp'.req.code = Undef /\ ~resp'.req.origin) => ForbiddenAndUntouched
           /\ resp'.req.code # Undef => resp'.kind # "Forbidden")]_vars

\* C38: a request without a code, or with an empty one, whose Origin header
\* is not the configured one is answered 403 and changes nothing; a request
\* with a non-empty code is never answered 403, whatever its Origin header.
C38_OriginCheckUnlessCode ==
    [][steps' = steps + 1
       => (/\ (~StrTruthy(resp'.req.code) /\ ~resp'.req.origin) => ForbiddenAndUntouched
           /\ StrTruthy(resp'.req.code) => resp'.kind # "Forbidden")]_vars

\* a request without code and without the Origin header has been answered
\* 403 while a code was stored and the limiters had counted a request
C38_Witness ==
    /\ resp.kind = "Forbidden" /\ resp.req.code = Undef /\ ~resp.req.origin
    /\ loginCodes # <<>>
    /\ \E ip \in IPs : ipLimiter[ip] > 0

(***************************************************************************)
(* The route with a code cache of more than one entry, and as many         *)
(* requests as it takes to fill the cache, look a code up and overfill it. *)
(***************************************************************************)
\* the capacity of the larger cache
LargerCapacity == CodeCapacity + 1

\* the number of requests of a run: the cache filled, one lookup, one more code
MaxCodeRequests == LargerCapacity + 2

\* the codes drawn: one more than the cache holds
CacheCodeNames == [i \in 1..(LargerCapacity + 1) |-> "c" \o ToString(i)]

CodesInit ==
    /\ build = [provider |-> "redis", ver |-> "checksum"]
    /\ config = [ipLimiter |-> NoLimiter, emailLimiter |-> NoLimiter, codeCapacity |-> LargerCapacity]
    /\ store = EmptyStore
    /\ steps = 0
    /\ loginCodes = <<>>
    /\ ipLimiter = [ip \in IPs |-> 0]
    /\ emailLimiter = [e \in Emails |-> 0]
    /\ MailerParked
    /\ resp = NoResp
    /\ hist = NoHistory
    /\ Parked
    /\ OthersParked

CodesLogin(req, userId, bytes, ok) ==
    Handle(MaxCodeRequests, CacheCodeNames, req, userId, bytes, ok)

\* the requests: issuances for one email, and followed links with every code
CodeRequests ==
    {Req(TRUE, Undef, "a@b.com", ip) : ip \in IPs}
    \cup {Req(FALSE, CacheCodeNames[i], "a@b.com", ip) : i \in DOMAIN CacheCodeNames, ip \in IPs}

CodesNext ==
    \E req \in CodeRequests :
        \E userId \in UserIdDraws(req), bytes \in PrefixDraws(req) :
            CodesLogin(req, userId, bytes, [i \in Transports |-> TRUE])

SpecCodes == CodesInit /\ [][CodesNext]_vars

\* the codes the cache holds, least recently touched first
CachedCodes == [i \in DOMAIN loginCodes |-> loginCodes[i].key]

\* capacity+1 codes have been issued and no request before the last carried
\* a code
OverfilledWithoutLookup ==
    /\ hist.issued = config.codeCapacity + 1
    /\ steps \in {hist.issued, hist.issued + 1}
    /\ steps = hist.issued + 1 => StrTruthy(resp.req.code)

\* C18: the code cache never holds more than its capacity; after capacity+1
\* issuances without a lookup it holds the codes but the first, the first is
\* refused and every other one is redeemed by its requester; and a code that
\* is looked up and not redeemed becomes the most recently touched one.
C18_CodeCacheBounded ==
    /\ Len(loginCodes) <= config.codeCapacity
    /\ (OverfilledWithoutLookup /\ steps = hist.issued)
          => CachedCodes = Tail(CacheCodeNames)
    /\ (OverfilledWithoutLookup /\ steps = hist.issued + 1)
          => IF resp.req.code = CacheCodeNames[1]
             THEN resp.kind = "Invalid or expired code!" /\ resp.session = NoSession
             ELSE /\ resp.entry # NoLoginRequest
                  /\ CodeMatches(resp.entry, resp.req) => resp.kind = "redirect"
    /\ (resp.kind = "Invalid or expired code!" /\ resp.entry # NoLoginRequest)
          => CachedCodes[Len(CachedCodes)] = resp.req.code

\* the first code outlives capacity+1 issuances because it was looked up
\* before the last of them
C18_Witness ==
    /\ hist.issued = config.codeCapacity + 1
    /\ steps = hist.issued + 1
    /\ resp.stored = CacheCodeNames[Len(CacheCodeNames)]
    /\ Len(loginCodes) = config.codeCapacity
    /\ LruHas(loginCodes, CacheCodeNames[1])

(***************************************************************************)
(* Redemption requests in flight together.  The handler yields at its      *)
(* awaits (getOrCreateAccount, generateSession, the callback); between     *)
(* them it runs without interruption.                                      *)
(***************************************************************************)
\* the number of redemption requests in flight
NumRedeemers == 2

Redeemers == 1..NumRedeemers

\* the link every one of them follows
FollowedCode == CodeNames[1]
FollowedEmail == "a@b.com"
FollowedLink == Req(FALSE, FollowedCode, FollowedEmail, "10.0.0.1")

\* the issuance requests for the email of the link
FlightIssuances == {req \in Requests : req.origin /\ req.email = FollowedEmail}

\* the redemption requests that follow the link
FlightRedemptions == {req \in Requests : req = FollowedLink}

\* a request in flight: its position, the account and session it holds, its answer
InFlight(pc, account, session, kind) ==
    [pc |-> pc, account |-> account, session |-> session, kind |-> kind]

FlightInit ==
    /\ build \in [provider : StorageProviders, ver : ModelVersions]
    /\ config = [ipLimiter |-> NoLimiter, emailLimiter |-> NoLimiter, codeCapacity |-> CodeCapacity]
    /\ store = EmptyStore
    /\ steps = 0
    /\ loginCodes = <<>>
    /\ ipLimiter = [ip \in IPs |-> 0]
    /\ emailLimiter = [e \in Emails |-> 0]
    /\ MailerParked
    /\ resp = NoResp
    /\ hist = NoHistory
    /\ Parked
    /\ web = NoWeb
    /\ procs = [p \in Redeemers |-> InFlight("arrive", NoAccount, NoSession, "none")]

\* the issuance request that stores the code of the link
FlightIssue(req, ok) ==
    Handle(1, CodeNames, req, NoUserId, <<>>, ok)

\* lines 93-124 and 133-137: the checks and loginCodes.get(code); a request
\* whose code does not match is answered at once
FlightArrive(p, req) ==
    /\ procs[p].pc = "arrive"
    /\ loginCodes' = LruTouch(loginCodes, req.code)
    /\ procs' = [procs EXCEPT ![p] =
                    IF CodeMatches(LookupCode(loginCodes, req.code), req)
                    THEN InFlight("account", NoAccount, NoSession, "none")
                    ELSE InFlight("done", NoAccount, NoSession, "Invalid or expired code!")]
    /\ UNCHANGED <<web, sVars, cVars, mVars, config, ipLimiter, emailLimiter, resp, hist>>

\* line 125: await passportModel.getOrCreateAccount('email', undefined, ..)
FlightAccount(p, userId) ==
    /\ procs[p].pc = "account"
    /\ LET got == getOrCreateAccount(build, store, "email", Undef,
                                     EmailProfile(FollowedEmail), userId)
       IN  /\ store' = got.st
           /\ procs' = [procs EXCEPT ![p] =
                           IF got.threw THEN InFlight("done", NoAccount, NoSession, "unanswered")
                           ELSE InFlight("session", got.ret, NoSession, "none")]
    /\ UNCHANGED <<web, build, call, prev, steps, cVars, lVars, mVars>>

\* line 126: await passportModel.generateSession(account)
FlightSession(p, bytes) ==
    /\ procs[p].pc = "session"
    /\ LET made == generateSession(build, store, procs[p].account, bytes)
       IN  /\ store' = made.st
           /\ procs' = [procs EXCEPT ![p] = InFlight("callback", procs[p].account, made.ret, "none")]
    /\ UNCHANGED <<web, build, call, prev, steps, cVars, lVars, mVars>>

\* lines 127-132: after the callback, loginCodes.delete(code) and the redirect
FlightFinish(p) ==
    /\ procs[p].pc = "callback"
    /\ loginCodes' = LruDelete(loginCodes, FollowedCode)
    /\ procs' = [procs EXCEPT ![p].pc = "done", ![p].kind = "redirect"]
    /\ UNCHANGED <<web, sVars, cVars, mVars, config, ipLimiter, emailLimiter, resp, hist>>

FlightNext ==
    \/ \E req \in FlightIssuances : FlightIssue(req, [i \in Transports |-> TRUE])
    \/ \E p \in Redeemers :
          \/ \E req \in FlightRedemptions : FlightArrive(p, req)
          \/ \E userId \in FreshUserIds(build, store) : FlightAccount(p, userId)
          \/ \E bytes \in SessionPrefixes : FlightSession(p, bytes)
          \/ FlightFinish(p)

SpecFlight == FlightInit /\ [][FlightNext]_vars

\* C22: of the redemption requests in flight for the same code, email and
\* IP, at most one mints a session, and every other one is answered
\* 'Invalid or expired code'.
C22_OneRedemptionPerCode ==
    (\A p \in Redeemers : procs[p].pc = "done")
    => (/\ Cardinality({p \in Redeemers : procs[p].session # NoSession}) <= 1
        /\ \A p \in Redeemers :
              procs[p].session = NoSession => procs[p].kind = "Invalid or expired code!")

(***************************************************************************)
(* The storage exercised through PassportModel: calls of                   *)
(* getOrCreateAccount, generateSession and querySessionData, one after     *)
(* the other.                                                              *)
(***************************************************************************)
\* the number of calls a run of the storage part makes
MaxStoreCalls == 3

\* the profiles the storage part is called with: the magic-link profile of an
\* email, and an OAuth profile without email and name
StoreProfiles(provider, sub) ==
    IF provider = "email" THEN {Profile(sub, sub, JsTrue, sub, Undef)}
    ELSE {Profile(sub, Undef, Undef, Undef, "pic.png")}

\* every account a provider holds, as getAccountInfo returns it
KnownAccounts(b, st) ==
    {getAccountInfo(b.provider, st, u).ret :
        u \in (IF b.provider = "mysql" THEN DOMAIN st.sqlAccounts ELSE DOMAIN st.kvAccount)}

\* the ids of the sessions a provider holds
StoredSessionIds(b, st) ==
    IF b.provider = "mysql" THEN DOMAIN st.sqlSessions ELSE DOMAIN st.kvSession

\* the owner of a stored session
SessionOwner(b, st, sessionId) ==
    IF sessionId \notin StoredSessionIds(b, st) THEN NoUserId
    ELSE IF b.provider = "mysql" THEN st.sqlSessions[sessionId].user_id
    ELSE st.kvSession[sessionId].user.userId

\* the session ids querySessionData is called with: the stored ones, and the
\* one generateSession has just returned
QueriedSessionIds ==
    StoredSessionIds(build, store)
    \cup (IF call.op = "generateSession" THEN {call.sessionId} ELSE {})

StoreInit ==
    /\ build \in [provider : StorageProviders, ver : ModelVersions]
    /\ store = EmptyStore
    /\ call = NoCall
    /\ prev = NoCall
    /\ steps = 0
    /\ codec = CodecIdle
    /\ LoginParked
    /\ MailerParked
    /\ OthersParked

StoreGetOrCreateAccount(provider, sub, token, userInfo, userId) ==
    /\ steps < MaxStoreCalls
    /\ LET r == getOrCreateAccount(build, store, provider, token, userInfo, userId)
       IN  /\ store' = r.st
           /\ call' = [NoCall EXCEPT !.op = "getOrCreateAccount", !.provider = provider,
                                     !.sub = sub, !.token = token, !.account = r.ret,
                                     !.created = r.created, !.threw = r.threw]
    /\ prev' = call
    /\ steps' = steps + 1
    /\ UNCHANGED <<build, cVars, lVars, mVars, xVars>>

StoreGenerateSession(user, bytes) ==
    /\ steps < MaxStoreCalls
    /\ LET r == generateSession(build, store, user, bytes)
       IN  /\ store' = r.st
           /\ call' = [NoCall EXCEPT !.op = "generateSession", !.userId = user.userId,
                                     !.session = r.ret, !.sessionId = r.ret.sessionId]
    /\ prev' = call
    /\ steps' = steps + 1
    /\ UNCHANGED <<build, cVars, lVars, mVars, xVars>>

StoreQuerySessionData(sessionId, userId) ==
    /\ steps < MaxStoreCalls
    /\ LET r == querySessionData(build.provider, store, sessionId, userId)
       IN  /\ store' = r.st
           /\ call' = [NoCall EXCEPT !.op = "querySessionData", !.userId = userId,
                                     !.sessionId = sessionId, !.session = r.ret,
                                     !.owner = SessionOwner(build, store, sessionId)]
    /\ prev' = call
    /\ steps' = steps + 1
    /\ UNCHANGED <<build, cVars, lVars, mVars, xVars>>

StoreNext ==
    \/ \E provider \in OAuthProviders, sub \in Subs, token \in Tokens :
         \E userInfo \in StoreProfiles(provider, sub), userId \in FreshUserIds(build, store) :
            StoreGetOrCreateAccount(provider, sub, token, userInfo, userId)
    \/ \E user \in KnownAccounts(build, store), bytes \in SessionPrefixes :
            StoreGenerateSession(user, bytes)
    \/ \E sessionId \in QueriedSessionIds, userId \in AccountIds \cup {NoUserId} :
            StoreQuerySessionData(sessionId, userId)

SpecStore == StoreInit /\ [][StoreNext]_vars

\* C3: two getOrCreateAccount calls in sequence for the same (provider, sub),
\* with or without a token, return the same userId, and the second creates no
\* account (one createAccount in all).
C3_SecondCallSameAccount ==
    (/\ call.op = "getOrCreateAccount" /\ prev.op = "getOrCreateAccount"
     /\ call.provider = prev.provider /\ call.sub = prev.sub
     /\ ~prev.threw)
    => (/\ ~call.created
        /\ call.account.userId = prev.account.userId)

\* C10: querySessionData(sessionId, userId) of a stored session, with a userId
\* (0 included) that is not the session's owner, returns no session.
C10_OtherOwnerAbsent ==
    (/\ call.op = "querySessionData"
     /\ call.userId # NoUserId
     /\ call.userId # call.owner)
    => call.session = NoSession

\* C13: a session returned by generateSession(user) is persisted: the
\* querySessionData(session.sessionId, user.userId) that follows it on the
\* same provider returns that session.
C13_GeneratedSessionPersisted ==
    (/\ call.op = "querySessionData" /\ prev.op = "generateSession"
     /\ call.sessionId = prev.sessionId /\ call.userId = prev.userId)
    => (/\ call.session # NoSession
        /\ call.session.sessionId = prev.sessionId
        /\ call.session.user.userId = prev.userId)

\* the account the (provider, sub) link of the store leads to
LinkedAccount(b, st, provider, sub) == queryOAuthMapping(b.provider, st, provider, sub).ret

\* two maps are the same but, at most, at key k
SameBut(f, g, k) ==
    /\ (DOMAIN f) \ {k} = (DOMAIN g) \ {k}
    /\ \A x \in (DOMAIN f) \ {k} : f[x] = g[x]

\* C32: a getOrCreateAccount call that finds a (provider, sub) link creates
\* no account, leaves every account record as it is and returns the linked
\* account; it writes at most the token of the link, and nothing at all when
\* the call has no token.
C32_FoundLinkOnlyRefreshesToken ==
    [][(/\ call'.op = "getOrCreateAccount"
        /\ steps' = steps + 1
        /\ LinkedAccount(build, store, call'.provider, call'.sub) # NoAccount)
       => (/\ ~call'.created
           /\ call'.account = LinkedAccount(build, store, call'.provider, call'.sub)
           /\ store'.sqlAccounts = store.sqlAccounts /\ store'.kvAccount = store.kvAccount
           /\ store'.sqlSessions = store.sqlSessions /\ store'.kvSession = store.kvSession
           /\ store'.kvOauth = store.kvOauth
           /\ SameBut(store'.sqlOauth, store.sqlOauth, <<call'.provider, call'.sub>>)
           /\ DOMAIN store'.sqlOauth = DOMAIN store.sqlOauth
           /\ \A k \in DOMAIN store.sqlOauth : store'.sqlOauth[k].user_id = store.sqlOauth[k].user_id
           /\ SameBut(store'.kvToken, store.kvToken, <<call'.provider, call'.account.userId>>)
           /\ call'.token = Undef => store' = store)]_vars

\* a call with a token has found the link an earlier call without one had
\* made, and has written the token
C32_Witness ==
    /\ call.op = "getOrCreateAccount" /\ prev.op = "getOrCreateAccount"
    /\ call.provider = prev.provider /\ call.sub = prev.sub
    /\ prev.created /\ ~prev.threw /\ prev.token = Undef
    /\ ~call.created /\ call.token # Undef
    /\ call.account.userId = prev.account.userId

(***************************************************************************)
(* Account creation: one getOrCreateAccount call with a profile an OAuth   *)
(* provider may return, on a database that is empty or holds the account   *)
(* of an earlier sign-in.                                                  *)
(***************************************************************************)
\* the profiles of the sign-ins: each of email, name and picture absent,
\* empty or given, email_verified absent, true or false
SignInProfiles ==
    {Profile(sub, email, verified, name, picture) :
        sub \in Subs, email \in {Undef, "", "a@b.com"}, verified \in {Undef, JsTrue, JsFalse},
        name \in {Undef, "", "Ann"}, picture \in {Undef, "pic.png"}}

\* the database at the sign-in
StoresAtSignIn(b) ==
    {EmptyStore,
     getOrCreateAccount(b, EmptyStore, "google", "tok1", Profile("a@b.com", Undef, Undef, "Ann", Undef), 1).st}

AccountsInit ==
    /\ build \in [provider : StorageProviders, ver : ModelVersions]
    /\ store \in StoresAtSignIn(build)
    /\ call = NoCall
    /\ prev = NoCall
    /\ steps = 0
    /\ codec = CodecIdle
    /\ LoginParked
    /\ MailerParked
    /\ OthersParked

\* the sign-in callback's getOrCreateAccount(provider, token, userInfo)
AccountsSignIn(provider, token, userInfo, userId) ==
    /\ call.op = "none"
    /\ LET r == getOrCreateAccount(build, store, provider, token, userInfo, userId)
       IN  /\ store' = r.st
           /\ call' = [NoCall EXCEPT !.op = "getOrCreateAccount", !.provider = provider,
                                     !.sub = userInfo.sub, !.token = token, !.account = r.ret,
                                     !.created = r.created, !.threw = r.threw,
                                     !.userInfo = userInfo]
    /\ prev' = call
    /\ steps' = steps + 1
    /\ UNCHANGED <<build, cVars, lVars, mVars, xVars>>

AccountsNext ==
    \E provider \in OAuthProviders, token \in Tokens, userInfo \in SignInProfiles,
       userId \in FreshUserIds(build, store) :
        AccountsSignIn(provider, token, userInfo, userId)

SpecAccounts == AccountsInit /\ [][AccountsNext]_vars

\* a field of a profile is given: defined and not the empty string
Given(v) == v # Undef /\ v # ""

\* C37: an account getOrCreateAccount has created has a non-empty
\* displayName, the name of the profile when it has one and
\* '<provider>-<sub>' otherwise; it has email and emailVerified exactly when
\* the profile has an email, and the stored account carries the same
\* displayName.
C37_CreatedAccountLabelled ==
    (call.op = "getOrCreateAccount" /\ call.created /\ ~call.threw)
    => LET a == call.account
           u == call.userInfo
       IN  /\ Given(a.displayName)
           /\ a.displayName = (IF Given(u.name) THEN u.name ELSE call.provider \o "-" \o u.sub)
           /\ Given(u.email) => (a.email = u.email /\ a.emailVerified \in {JsTrue, JsFalse})
           /\ ~Given(u.email) => (a.email = Undef /\ a.emailVerified = Undef)
           /\ getAccountInfo(build.provider, store, a.userId).ret.displayName = a.displayName

\* an account has been created from a profile without name and without email
C37_Witness ==
    /\ call.op = "getOrCreateAccount" /\ call.created /\ ~call.threw
    /\ ~Given(call.userInfo.name) /\ ~Given(call.userInfo.email)
    /\ call.account.displayName = "google-c@d.org"

(***************************************************************************)
(* The two providers side by side: every call is made on the relational    *)
(* provider (the sql* tables of the store) and on the key-value provider   *)
(* (its kv* keys) with the same arguments, and the two answers are kept.   *)
(***************************************************************************)
\* the answers of the two providers to one call
Answers(op, sql, kv) ==
    [op |-> op, sql |-> [ret |-> sql.ret, threw |-> sql.threw],
                kv |-> [ret |-> kv.ret, threw |-> kv.threw]]

NoAnswers == Answers("none", Result(EmptyStore, Undef), Result(EmptyStore, Undef))

\* the accounts createAccount and generateSession are called with
PairAccounts ==
    {NewAccount("email", Profile(e, e, JsTrue, e, Undef), u) : e \in {"a@b.com"}, u \in {1, 65521}}
    \cup {NewAccount("google", Profile("c@d.org", Undef, Undef, "C", "pic.png"), 1)}

PairInit ==
    /\ build \in [provider : {"mysql"}, ver : ModelVersions]
    /\ store = EmptyStore
    /\ call = NoAnswers
    /\ prev = NoCall
    /\ steps = 0
    /\ codec = CodecIdle
    /\ LoginParked
    /\ MailerParked
    /\ OthersParked

\* one call on both providers: the relational one works on the sql* part of
\* the store, the key-value one on the kv* part
Pair(op, sql, kv) ==
    /\ steps < MaxStoreCalls
    /\ steps' = steps + 1
    /\ store' = [x \in DOMAIN store |->
                    IF x \in {"sqlAccounts", "sqlSessions", "sqlOauth"} THEN sql.st[x] ELSE kv.st[x]]
    /\ call' = Answers(op, sql, kv)
    /\ UNCHANGED <<build, prev, cVars, lVars, mVars, xVars>>

PairCreateAccount(account) ==
    Pair("createAccount", MySqlCreateAccount(store, account), RedisCreateAccount(store, account))

PairSaveToken(userId, provider, sub, token) ==
    Pair("saveToken", MySqlSaveToken(store, userId, provider, sub, token),
                      RedisSaveToken(store, userId, provider, sub, token))

PairSaveSessionData(session) ==
    Pair("saveSessionData", MySqlSaveSessionData(store, session), RedisSaveSessionData(store, session))

PairGetAccountInfo(userId) ==
    Pair("getAccountInfo", MySqlGetAccountInfo(store, userId), RedisGetAccountInfo(store, userId))

PairQueryOAuthMapping(provider, sub) ==
    Pair("queryOAuthMapping", MySqlQueryOAuthMapping(store, provider, sub),
                              RedisQueryOAuthMapping(store, provider, sub))

PairQuerySessionData(sessionId, userId) ==
    Pair("querySessionData", MySqlQuerySessionData(store, sessionId, userId),
                             RedisQuerySessionData(store, sessionId, userId))

\* the sessions saveSessionData is called with: a token of the build's codec
\* for the account
PairSessions ==
    {Session(generateSessionId(build.ver, SecretKey, a.userId, bytes), a) :
        a \in PairAccounts, bytes \in {[i \in 1..SESSION_PREFIX_LENGTH |-> 0]}}

PairNext ==
    \/ \E account \in PairAccounts : PairCreateAccount(account)
    \/ \E userId \in {1, 65521}, sub \in Subs, token \in Tokens :
          PairSaveToken(userId, "google", sub, token)
    \/ \E session \in PairSessions : PairSaveSessionData(session)
    \/ \E userId \in {1, 65521} : PairGetAccountInfo(userId)
    \/ \E sub \in Subs : PairQueryOAuthMapping("google", sub)
    \/ \E session \in PairSessions, userId \in {1, 65521, NoUserId} :
          PairQuerySessionData(session.sessionId, userId)

SpecPair == PairInit /\ [][PairNext]_vars

\* C14: the relational and the key-value provider are observationally
\* equivalent: after the same calls, every call returns the same result on
\* both.
C14_ProvidersAgree == call.op # "none" => call.sql = call.kv

(***************************************************************************)
(* The tokens of a provider: links are saved and removed, and the stored   *)
(* links are read back.  A read changes nothing; `prev` holds the last     *)
(* call that wrote and `call` the read made after it.                      *)
(***************************************************************************)
\* the number of writing calls of a run
MaxTokenCalls == 4

TokenUsers == {1, 65521}
TokenValues == {"tok1", "tok2"}
TokenProvider == "google"

\* the accounts of the two users
TokenAccounts ==
    {NewAccount(TokenProvider, Profile("a@b.com", "a@b.com", JsTrue, "A", Undef), u) : u \in TokenUsers}

\* the record of a call: its arguments, its answer and the store it found
TokenCall(op, userId, sub, token, ret, before) ==
    [op |-> op, userId |-> userId, sub |-> sub, token |-> token, ret |-> ret, before |-> before]

NoTokenCall == TokenCall("none", NoUserId, Undef, Undef, Undef, EmptyStore)

TokenInit ==
    /\ build \in [provider : StorageProviders, ver : {"checksum"}]
    /\ store = EmptyStore
    /\ call = NoTokenCall
    /\ prev = NoTokenCall
    /\ steps = 0
    /\ codec = CodecIdle
    /\ LoginParked
    /\ MailerParked
    /\ OthersParked

\* a call that writes: the store after it, and no read made since
TokenWrite(op, userId, sub, token, r) ==
    /\ steps < MaxTokenCalls
    /\ steps' = steps + 1
    /\ store' = r.st
    /\ prev' = TokenCall(op, userId, sub, token, r.ret, store)
    /\ call' = NoTokenCall
    /\ UNCHANGED <<build, cVars, lVars, mVars, xVars>>

\* a call that reads
TokenRead(op, userId, sub, r) ==
    /\ call' = TokenCall(op, userId, sub, Undef, r.ret, store)
    /\ UNCHANGED <<build, store, prev, steps, cVars, lVars, mVars, xVars>>

TokenCreateAccount(account) ==
    TokenWrite("createAccount", account.userId, Undef, Undef, createAccount(build.provider, store, account))

TokenSaveToken(userId, sub, token) ==
    TokenWrite("saveToken", userId, sub, token, saveToken(build.provider, store, userId, TokenProvider, sub, token))

\* disconnect exists on the key-value provider only
TokenDisconnect(userId) ==
    /\ build.provider = "redis"
    /\ TokenWrite("disconnect", userId, Undef, Undef, RedisDisconnect(store, TokenProvider, userId))

TokenLoadToken(userId) ==
    \E r \in loadToken(build.provider, store, userId, TokenProvider) : TokenRead("loadToken", userId, Undef, r)

TokenQueryToken(sub) ==
    \E r \in queryToken(build.provider, store, TokenProvider, sub) : TokenRead("queryToken", NoUserId, sub, r)

TokenQueryProfile(userId) ==
    \E r \in queryProfile(build.provider, store, TokenProvider, userId) : TokenRead("queryProfile", userId, Undef, r)

TokenQueryOAuthMapping(sub) ==
    TokenRead("queryOAuthMapping", NoUserId, sub, queryOAuthMapping(build.provider, store, TokenProvider, sub))

TokenNext ==
    \/ \E account \in TokenAccounts : TokenCreateAccount(account)
    \/ \E userId \in TokenUsers, sub \in Subs, token \in TokenValues : TokenSaveToken(userId, sub, token)
    \/ \E userId \in TokenUsers : TokenDisconnect(userId)
    \/ \E userId \in TokenUsers : TokenLoadToken(userId)
    \/ \E sub \in Subs : TokenQueryToken(sub)
    \/ \E userId \in TokenUsers : TokenQueryProfile(userId)
    \/ \E sub \in Subs : TokenQueryOAuthMapping(sub)

SpecTokens == TokenInit /\ [][TokenNext]_vars

\* C24: in the key-value provider the two key families agree after any
\* completed saveToken and disconnect calls: oauth:{provider}:{sub} maps to
\* userId if and only if token:{provider}:{userId} exists with that sub.
C24_KeyFamiliesConsistent ==
    build.provider = "redis"
    => \A sub \in Subs, userId \in TokenUsers :
          (Has(store.kvOauth, <<TokenProvider, sub>>) /\ store.kvOauth[<<TokenProvider, sub>>].userId = userId)
          <=> (Has(store.kvToken, <<TokenProvider, userId>>) /\ store.kvToken[<<TokenProvider, userId>>].sub = sub)

\* C25: after disconnect(provider, userId) has returned true, loadToken of
\* the user is absent, and no sub is left whose queryOAuthMapping or
\* queryToken resolves to the user; after it has returned false no key is
\* modified.
C25_DisconnectRemovesLink ==
    (build.provider = "redis" /\ prev.op = "disconnect")
    => IF prev.ret
       THEN /\ call.op = "loadToken" /\ call.userId = prev.userId => call.ret = Undef
            /\ call.op = "queryOAuthMapping" => call.ret.userId # prev.userId
            /\ (/\ call.op = "queryToken"
                /\ Has(store.kvOauth, <<TokenProvider, call.sub>>)
                /\ store.kvOauth[<<TokenProvider, call.sub>>].userId = prev.userId) => call.ret = Undef
       ELSE store = prev.before

\* C26: after saveToken(userId, provider, sub, token) has completed,
\* loadToken(userId, provider) and queryToken(provider, sub) return that
\* token, queryProfile(provider, userId) returns that sub, and
\* queryOAuthMapping(provider, sub) resolves to the account of userId.
C26_SavedTokenReadsBack ==
    prev.op = "saveToken"
    => /\ call.op = "loadToken" /\ call.userId = prev.userId => call.ret = prev.token
       /\ call.op = "queryToken" /\ call.sub = prev.sub => call.ret = prev.token
       /\ call.op = "queryProfile" /\ call.userId = prev.userId => call.ret = OAuth2ProfileOf(prev.sub)
       /\ call.op = "queryOAuthMapping" /\ call.sub = prev.sub
             => call.ret = getAccountInfo(build.provider, store, prev.userId).ret

(***************************************************************************)
(* Concurrent getOrCreateAccount calls for one (provider, sub).  A caller  *)
(* yields at each await of PassportModel.getOrCreateAccount; each storage  *)
(* call is one step.                                                       *)
(***************************************************************************)
\* the number of concurrent callers
NumCallers == 2

Callers == 1..NumCallers

\* the (provider, sub) and the token every caller signs in with
RaceProvider == "google"
RaceProfile == Profile("a@b.com", Undef, Undef, Undef, Undef)
RaceToken == "tok1"

\* a caller before its first await
Caller(pc, account, created) == [pc |-> pc, account |-> account, created |-> created]

RaceInit ==
    /\ build \in [provider : StorageProviders, ver : ModelVersions]
    /\ store = EmptyStore
    /\ procs = [p \in Callers |-> Caller("query", NoAccount, FALSE)]
    /\ web = NoWeb
    /\ call = NoCall
    /\ prev = NoCall
    /\ steps = 0
    /\ codec = CodecIdle
    /\ LoginParked
    /\ MailerParked

\* the user ids the other callers have drawn
DrawnByOthers(p) == {procs[q].account.userId : q \in Callers \ {p}}

\* let acc = await this.queryOAuthMapping(provider, userInfo.sub), and the
\* account built when there is none (userId is the id generateUserId draws)
RaceQuery(p, userId) ==
    /\ procs[p].pc = "query"
    /\ LET acc == queryOAuthMapping(build.provider, store, RaceProvider, RaceProfile.sub).ret
       IN  procs' = [procs EXCEPT ![p] =
                        IF acc # NoAccount THEN Caller("relink", acc, FALSE)
                        ELSE Caller("create", NewAccount(RaceProvider, RaceProfile, userId), FALSE)]
    /\ UNCHANGED <<web, sVars, cVars, lVars, mVars>>

\* await this.saveToken(acc.userId, provider, userInfo.sub, token); return acc
RaceRelink(p) ==
    /\ procs[p].pc = "relink"
    /\ store' = saveToken(build.provider, store, procs[p].account.userId, RaceProvider,
                          RaceProfile.sub, RaceToken).st
    /\ procs' = [procs EXCEPT ![p].pc = "done"]
    /\ UNCHANGED <<web, build, call, prev, steps, cVars, lVars, mVars>>

\* await this.storage.createAccount(account)
RaceCreate(p) ==
    /\ procs[p].pc = "create"
    /\ LET made == createAccount(build.provider, store, procs[p].account)
       IN  /\ store' = made.st
           /\ procs' = [procs EXCEPT ![p] =
                           IF made.threw THEN Caller("failed", NoAccount, FALSE)
                           ELSE Caller("link", procs[p].account, TRUE)]
    /\ UNCHANGED <<web, build, call, prev, steps, cVars, lVars, mVars>>

\* await this.saveToken(account.userId, provider, userInfo.sub, token); return account
RaceLink(p) ==
    /\ procs[p].pc = "link"
    /\ store' = LinkNewAccount(build, store, procs[p].account.userId, RaceProvider,
                               RaceProfile.sub, RaceToken).st
    /\ procs' = [procs EXCEPT ![p].pc = "done"]
    /\ UNCHANGED <<web, build, call, prev, steps, cVars, lVars, mVars>>

RaceNext ==
    \E p \in Callers :
        \/ \E userId \in FreshUserIds(build, store) \ DrawnByOthers(p) : RaceQuery(p, userId)
        \/ RaceRelink(p)
        \/ RaceCreate(p)
        \/ RaceLink(p)

SpecRace == RaceInit /\ [][RaceNext]_vars

\* the userId the stored (provider, sub) link points to
LinkedUserId == queryOAuthMapping(build.provider, store, RaceProvider, RaceProfile.sub).ret.userId

\* C17: when concurrent getOrCreateAccount calls for the same (provider, sub)
\* have returned, at most one account was created for the pair and every
\* caller has received the userId the stored link points to.
C17_OneAccountPerLink ==
    (\A p \in Callers : procs[p].pc = "done")
    => (/\ Cardinality({p \in Callers : procs[p].created}) <= 1
        /\ \A p \in Callers : procs[p].account.userId = LinkedUserId)

(***************************************************************************)
(* The mailer exercised on its own: calls of sendMail, one after the       *)
(* other, and the passing of time.                                         *)
(***************************************************************************)
\* the number of sendMail calls of a run, and the time a run lasts
MaxSendCalls == 4
MaxTime == 2

\* the number of elements of s that are i
RECURSIVE Occurrences(_, _)
Occurrences(s, i) ==
    IF s = <<>> THEN 0 ELSE (IF Head(s) = i THEN 1 ELSE 0) + Occurrences(Tail(s), i)

\* the history after a call: every transport tried has failed, but the last
\* one when the mail was delivered
Sent(h, r) ==
    LET failed == IF r.delivered THEN SubSeq(r.tried, 1, Len(r.tried) - 1) ELSE r.tried
    IN  [calls |-> h.calls + 1, tried |-> r.tried, delivered |-> r.delivered,
         failures |-> [i \in Transports |-> h.failures[i] + Occurrences(failed, i)],
         successes |-> [i \in Transports |->
                          h.successes[i]
                          + (IF r.delivered /\ r.tried[Len(r.tried)] = i THEN 1 ELSE 0)]]

MailerInit ==
    /\ MailerParked
    /\ build = [provider |-> "mysql", ver |-> "checksum"]
    /\ store = EmptyStore
    /\ steps = 0
    /\ Parked
    /\ LoginParked
    /\ OthersParked

\* one call of sendMail, from its first send to its return
MailerSend(ok) ==
    /\ mailed.calls < MaxSendCalls
    /\ LET r == sendMail(mailer, ok, now)
       IN  /\ mailer' = r.m
           /\ mailed' = Sent(mailed, r)
    /\ UNCHANGED <<now, cVars, sVars, lVars, xVars>>

\* 600000 ms pass
MailerTick ==
    /\ now < MaxTime
    /\ now' = now + 1
    /\ UNCHANGED <<mailer, mailed, cVars, sVars, lVars, xVars>>

MailerNext ==
    \/ \E ok \in SendOutcomes : MailerSend(ok)
    \/ MailerTick

SpecMailer == MailerInit /\ [][MailerNext]_vars

\* the first transport has failed whenever it was tried and the second has
\* succeeded whenever it was tried
FirstDownSecondUp ==
    /\ mailed.successes[1] = 0
    /\ mailed.failures[2] = 0

\* C8: with two transports of which the first always fails and the second
\* always succeeds, the second is first in orders once MaxSendCalls calls of
\* sendMail have been made.
C8_FailingTransportSinks ==
    (FirstDownSecondUp /\ mailed.calls = MaxSendCalls) => mailer.orders[1] = 2

\* C21: within one sendMail call no transport is attempted more than once,
\* and the call resolves without a successful send only after every
\* configured transport has been attempted.
C21_EachTransportOnce ==
    mailed.calls > 0
    => (/\ \A i \in Transports : Occurrences(mailed.tried, i) <= 1
        /\ ~mailed.delivered => \A i \in Transports : Occurrences(mailed.tried, i) = 1)

\* the transports that come after transport i in the try-order
AfterInOrder(orders, i) ==
    {orders[k] : k \in {k \in DOMAIN orders : \E p \in DOMAIN orders : orders[p] = i /\ p < k}}

\* the rescoring as section 4.4 states it: the transports after the failing
\* one in the try-order are multiplied, the failing one gets 1 more, and the
\* try-order is sorted again
StatedReevaluate(m, i, t) ==
    LET scores == [j \in DOMAIN m.scores |->
                      IF j \in AfterInOrder(m.orders, i) THEN m.scores[j] * Pow2(t - m.lastEvaluated)
                      ELSE IF j = i THEN m.scores[j] + 1
                      ELSE m.scores[j]]
    IN  [scores |-> scores, orders |-> SortByScore(m.orders, scores), lastEvaluated |-> t]

\* the stated rescoring for the failures of one call, in turn
RECURSIVE StatedReplay(_, _, _)
StatedReplay(m, failed, t) ==
    IF failed = <<>> THEN m ELSE StatedReplay(StatedReevaluate(m, Head(failed), t), Tail(failed), t)

\* the transports that failed in the last call, in turn
FailedIn(h) ==
    IF h.delivered THEN SubSeq(h.tried, 1, Len(h.tried) - 1) ELSE h.tried

\* C23: a call of sendMail leaves the scores and the try-order as the stated
\* rescoring leaves them: on each failure the transports after the failing
\* one in the current try-order are multiplied by 2^(elapsed/halfLife), the
\* failing one gets 1 more, and the try-order is sorted descending by score.
C23_RescoresLaterInOrder ==
    [][mailed'.calls = mailed.calls + 1 => mailer' = StatedReplay(mailer, FailedIn(mailed'), now)]_vars

(***************************************************************************)
(* Concurrent calls of sendMail on one AutoMailer.  A call yields at       *)
(* `await mailer.sendMail(..)`; what it does between two awaits (the catch *)
(* with reevaluate, the loop test, the start of the next send) is one      *)
(* step.  The mailer is built over 0 to NumMailers transports, and every   *)
(* caller makes one call.                                                  *)
(***************************************************************************)
NumSenders == 2
Senders == 1..NumSenders

\* the constructor over n transports
AutoMailerOf(n, t) ==
    [scores |-> [i \in 1..n |-> 0], orders |-> [i \in 1..n |-> i], lastEvaluated |-> t]

\* a call of sendMail: where it is, its loop index, the transport it awaits,
\* the sends it has started, whether it has returned after a send that
\* succeeded, and whether it has thrown (the send is the only statement of
\* the loop that can throw, and it is inside the try: no step sets threw)
Sender(pc, i, sending, attempts, delivered, threw) ==
    [pc |-> pc, i |-> i, sending |-> sending, attempts |-> attempts, delivered |-> delivered,
     threw |-> threw]

\* a loop that tries the same place of orders again after a failure
SameInLoop(i) == i

\* the loop index after a pass of the loop (i++)
NextInLoop(i) == i + 1

\* the loop from index i on, up to the next await: the loop test, then the
\* send on this.mailers[this.orders[i]]
LoopFrom(m, i, attempts) ==
    IF i > Len(m.orders) THEN Sender("done", i, 0, attempts, FALSE, FALSE)
    ELSE Sender("await", i, m.orders[i], attempts + 1, FALSE, FALSE)

SendersInit ==
    /\ \E n \in 0..NumMailers : mailer = AutoMailerOf(n, 0)
    /\ now = 0
    /\ mailed = NoSend
    /\ procs = [p \in Senders |-> Sender("idle", 0, 0, 0, FALSE, FALSE)]
    /\ web = NoWeb
    /\ build = [provider |-> "mysql", ver |-> "checksum"]
    /\ store = EmptyStore
    /\ steps = 0
    /\ Parked
    /\ LoginParked

\* sendMail is called: the loop runs to its first await
SenderCall(p) ==
    /\ procs[p].pc = "idle"
    /\ mailed' = [mailed EXCEPT !.calls = @ + 1]
    /\ procs' = [procs EXCEPT ![p] = LoopFrom(mailer, 1, 0)]
    /\ UNCHANGED <<mailer, now, web, cVars, sVars, lVars>>

\* the awaited send settles: the call returns when it succeeded; when it
\* failed, the catch reads this.orders[i] again for reevaluate, and the
\* loop goes on
SenderSettle(p, ok) ==
    /\ procs[p].pc = "await"
    /\ IF ok
       THEN /\ procs' = [procs EXCEPT ![p] = [@ EXCEPT !.pc = "done", !.delivered = TRUE]]
            /\ UNCHANGED mailer
       ELSE /\ mailer' = reevaluate(mailer, mailer.orders[procs[p].i], now)
            /\ procs' = [procs EXCEPT ![p] =
                            LoopFrom(mailer', NextInLoop(procs[p].i), procs[p].attempts)]
    /\ UNCHANGED <<mailed, now, web, cVars, sVars, lVars>>

\* 600000 ms pass
SendersTick ==
    /\ now < MaxTime
    /\ now' = now + 1
    /\ UNCHANGED <<mailer, mailed, procs, web, cVars, sVars, lVars>>

SendersNext ==
    \/ \E p \in Senders : SenderCall(p)
    \/ \E p \in Senders, ok \in BOOLEAN : SenderSettle(p, ok)
    \/ SendersTick

SpecSenders == SendersInit /\ [][SendersNext]_vars

\* every send that is awaited settles, and the event loop then runs the
\* call that awaits it
SpecSendersFair ==
    SpecSenders /\ \A p \in Senders : WF_vars(\E ok \in BOOLEAN : SenderSettle(p, ok))

\* C30: a call of sendMail starts at most N sends (N the number of
\* configured transports, 0 included), never throws, and returns, also when
\* every send fails and other calls reorder the transports meanwhile.
C30_SendMailTerminates ==
    /\ [](\A p \in Senders : procs[p].attempts <= Len(mailer.orders) /\ ~procs[p].threw)
    /\ \A p \in Senders : (procs[p].pc = "await") ~> (procs[p].pc = "done")

\* a call has returned after every one of its sends failed, while another
\* call is in its loop and the try-order is no longer the constructor's
C30_Witness ==
    \E p, q \in Senders :
        /\ procs[p].pc = "done" /\ ~procs[p].delivered
        /\ procs[p].attempts = NumMailers /\ Len(mailer.orders) = NumMailers
        /\ procs[q].pc = "await" /\ procs[q].i > 1
        /\ mailer.orders # [i \in 1..NumMailers |-> i]

CLEANUP_INTERVAL == 1

\* this.sessionKeepAlive, in days
SweepKeepAlive == 2

SweepSessionIds == {"s1", "s2"}

\* created < Date.now() - this.sessionKeepAlive
Expired(row) == row.age > SweepKeepAlive

\* the rows the WHERE clause of a DELETE issued now selects
ExpiredIn(st) == {sid \in DOMAIN st.sqlSessions : Expired(st.sqlSessions[sid])}

\* the sweep: awaiting the DELETE ("query"), waiting for the timer
\* ("timer", with the days that remain), or ended by a rejected await
\* ("stopped"); doomed is the set of rows the DELETE in flight selects
Sweep(pc, remaining, doomed) == [pc |-> pc, remaining |-> remaining, doomed |-> doomed]

\* cleanupExpiredSessions up to its await: the DELETE is issued
cleanupExpiredSessions(st) == Sweep("query", 0, ExpiredIn(st))

\* the tables the constructor finds: empty, or with rows of an earlier run
SweepTablesAtStart ==
    {[EmptyStore EXCEPT !.sqlSessions = rows] :
        rows \in {EmptyMap, [sid \in {"s1"} |-> [user_id |-> 1, age |-> SweepKeepAlive + 1]]}}

SweepInit ==
    /\ store \in SweepTablesAtStart
    /\ procs = cleanupExpiredSessions(store)
    /\ build = [provider |-> "mysql", ver |-> "checksum"]
    /\ steps = 0
    /\ web = NoWeb
    /\ Parked
    /\ LoginParked
    /\ MailerParked

\* saveSessionData: INSERT .. VALUES(id, user_id, Date.now())
SweepSaveSession(sid, userId) ==
    /\ ~Has(store.sqlSessions, sid)
    /\ store' = [store EXCEPT !.sqlSessions = Put(@, sid, [user_id |-> userId, age |-> 0])]
    /\ UNCHANGED <<build, call, prev, steps, web, procs, cVars, lVars, mVars>>

\* a day passes; a timer that is due fires before the next day
SweepDay ==
    /\ ~(procs.pc = "timer" /\ procs.remaining = 0)
    /\ store' = [store EXCEPT !.sqlSessions =
                     [sid \in DOMAIN @ |-> IF Expired(@[sid]) THEN @[sid]
                                          ELSE [@[sid] EXCEPT !.age = @ + 1]]]
    /\ procs' = IF procs.pc = "timer" THEN [procs EXCEPT !.remaining = @ - 1] ELSE procs
    /\ UNCHANGED <<build, call, prev, steps, web, cVars, lVars, mVars>>

\* the awaited DELETE settles: when it resolved, the rows are gone and
\* setTimeout schedules the next run; when it rejected, the await throws
\* and the function ends before setTimeout
SweepSettle(ok) ==
    /\ procs.pc = "query"
    /\ IF ok
       THEN /\ store' = [store EXCEPT !.sqlSessions =
                            [sid \in (DOMAIN @) \ procs.doomed |-> @[sid]]]
            /\ procs' = Sweep("timer", CLEANUP_INTERVAL, {})
       ELSE /\ procs' = Sweep("stopped", 0, {})
            /\ UNCHANGED store
    /\ UNCHANGED <<build, call, prev, steps, web, cVars, lVars, mVars>>

\* the timer fires: () => this.cleanupExpiredSessions()
SweepFire ==
    /\ procs.pc = "timer" /\ procs.remaining = 0
    /\ procs' = cleanupExpiredSessions(store)
    /\ UNCHANGED <<web, sVars, cVars, lVars, mVars>>

SweepNext ==
    \/ \E sid \in SweepSessionIds, userId \in AccountIds : SweepSaveSession(sid, userId)
    \/ SweepDay
    \/ \E ok \in BOOLEAN : SweepSettle(ok)
    \/ SweepFire

SpecSweep == SweepInit /\ [][SweepNext]_vars

\* time passes, a timer that is due fires, and a query that is awaited
\* settles
SpecSweepFair ==
    SpecSweep /\ WF_vars(SweepDay) /\ WF_vars(SweepFire) /\ WF_vars(\E ok \in BOOLEAN : SweepSettle(ok))

\* C35: after every run of cleanupExpiredSessions, whether its DELETE
\* resolved or rejected, the next run is scheduled, so that every row older
\* than the keep-alive is deleted in the end.
C35_SweepRecursForever ==
    /\ [][(procs.pc = "query" /\ procs'.pc # "query") => procs'.pc = "timer"]_vars
    /\ \A sid \in SweepSessionIds :
          (Has(store.sqlSessions, sid) /\ Expired(store.sqlSessions[sid]))
              ~> ~Has(store.sqlSessions, sid)

\* the same as long as no DELETE is rejected
C35_SweepRecursWhileQueriesResolve ==
    \/ <>(procs.pc = "stopped")
    \/ \A sid \in SweepSessionIds :
          (Has(store.sqlSessions, sid) /\ Expired(store.sqlSessions[sid]))
              ~> ~Has(store.sqlSessions, sid)

(***************************************************************************)
(* The session middleware in front of the storage: sign-ins that mint      *)
(* sessions, and requests that carry cookies.                              *)
(***************************************************************************)
\* the number of sign-ins and requests of a run
MaxWebSteps == 3

WebInit ==
    /\ build \in [provider : StorageProviders, ver : ModelVersions]
    /\ \E variant \in Middlewares : web = [NoWeb EXCEPT !.variant = variant]
    /\ procs = <<>>
    /\ store = EmptyStore
    /\ steps = 0
    /\ Parked
    /\ LoginParked
    /\ MailerParked

\* the sign-in callback of setup (src/lib/index.ts 78-84): the account of
\* the profile, and a session for it
WebSignIn(sub, userId, bytes) ==
    /\ steps < MaxWebSteps
    /\ steps' = steps + 1
    /\ LET got == getOrCreateAccount(build, store, "google", "tok1",
                                     Profile(sub, Undef, Undef, Undef, Undef), userId)
       IN  /\ ~got.threw
           /\ store' = generateSession(build, got.st, got.ret, bytes).st
    /\ UNCHANGED <<build, call, prev, web, procs, cVars, lVars, mVars>>

\* one request through the middleware
WebRequest(sid, uid, fails) ==
    /\ steps < MaxWebSteps
    /\ steps' = steps + 1
    /\ LET r == expressMiddleware(web.variant, build, store, web.cache, sid, uid, fails)
       IN  web' = [web EXCEPT !.cache = r.cache, !.sid = sid, !.uid = uid,
                              !.session = r.session, !.nexts = r.nexts, !.path = r.path]
    /\ UNCHANGED <<build, store, call, prev, procs, cVars, lVars, mVars>>

\* the session-id cookies of the requests: the stored session ids, a token
\* that is minted but not stored, a text that is not hex, and no cookie
SessionIdCookies ==
    StoredSessionIds(build, store)
    \cup {generateSessionId(build.ver, SecretKey, 1, [i \in 1..SESSION_PREFIX_LENGTH |-> 0]),
          <<NonHex, NonHex>>, <<>>}

WebNext ==
    \/ \E sub \in Subs, userId \in FreshUserIds(build, store), bytes \in SessionPrefixes :
          WebSignIn(sub, userId, bytes)
    \/ \E sid \in SessionIdCookies, uid \in UserIdCookies, fails \in BOOLEAN :
          WebRequest(sid, uid, fails)

SpecWeb == WebInit /\ [][WebNext]_vars

\* C11: the middleware attaches a session only when the session-id cookie
\* validates for the user-id cookie and the session belongs to that user.
C11_AttachedOnlyIfValid ==
    web.session # NoSession
        => (/\ validateSessionId(build.ver, SecretKey, web.sid, parseInt(web.uid)) = "true"
            /\ web.session.user.userId = parseInt(web.uid))

\* C12: the middleware calls next() exactly once for every request.
C12_NextExactlyOnce == web.path # "none" => web.nexts = 1

\* res.cookie(COOKIE_NAME_USER_ID, account.userId): the cookie carries the
\* decimal text of the number
UserIdCookieOf(userId) ==
    CASE userId = 0 -> "0"
      [] userId = 1 -> "1"
      [] userId = 65521 -> "65521"
      [] OTHER -> Undef

\* the user a stored session has been persisted for
StoredOwner(b, st, sid) ==
    IF b.provider = "mysql" THEN st.sqlSessions[sid].user_id
    ELSE JsonParseSession(st.kvSession[sid]).user.userId

\* what the middleware attaches to a request that presents the cookie pair
\* of a persisted session, the storage answering the query
AttachedForPair(sid) ==
    expressMiddleware(web.variant, build, store, web.cache, sid,
                      UserIdCookieOf(StoredOwner(build, store, sid)), FALSE).session

\* C33: whatever userId generateUserId has allocated, 0 included, the
\* middleware attaches the session to a request that presents the cookie
\* pair of a session generateSession has minted and persisted.
C33_PersistedSessionAttached ==
    \A sid \in StoredSessionIds(build, store) : AttachedForPair(sid) # NoSession

\* the same for the users whose id is not 0
C33_NonZeroUserAttached ==
    \A sid \in StoredSessionIds(build, store) :
        StoredOwner(build, store, sid) # 0 => AttachedForPair(sid) # NoSession

(***************************************************************************)
(* The codec exercised on its own: a process with some build and secret    *)
(* mints a token for a user, then verifies it for some claimed user.       *)
(***************************************************************************)
CodecInit ==
    /\ \E ver \in ModelVersions, key \in Secrets :
          codec = [CodecIdle EXCEPT !.ver = ver, !.key = key]
    /\ build = [provider |-> "mysql", ver |-> "checksum"]
    /\ store = EmptyStore
    /\ call = NoCall
    /\ prev = NoCall
    /\ steps = 0
    /\ LoginParked
    /\ MailerParked
    /\ OthersParked

\* generateSessionId(userId) with the random prefix bytes
CodecMint(userId, bytes) ==
    /\ codec.op = "none"
    /\ codec' = [codec EXCEPT !.op = "mint", !.user = userId, !.prefix = bytes,
                              !.token = generateSessionId(codec.ver, codec.key, userId, bytes)]
    /\ UNCHANGED <<sVars, lVars, mVars, xVars>>

\* validateSessionId(token, userId) on the minted token
CodecValidate(userId) ==
    /\ codec.op \in {"mint", "validate"}
    /\ codec.token # Thrown
    /\ codec' = [codec EXCEPT !.op = "validate", !.claimed = userId,
                              !.valid = validateSessionId(codec.ver, codec.key, codec.token, userId)]
    /\ UNCHANGED <<sVars, lVars, mVars, xVars>>

\* the differences (modulo 256) a replaced byte has to the byte it replaces
ByteChanges == {1, 128, 255}

\* byte i of a token string
ByteOf(token, i) == token[2 * i - 1] * 16 + token[2 * i]

\* the token string with byte i replaced by value v
WithByte(token, i, v) ==
    [n \in DOMAIN token |-> IF n = 2 * i - 1 THEN v \div 16
                            ELSE IF n = 2 * i THEN v % 16
                            ELSE token[n]]

\* the bytes that are replaced: the first and the last of the prefix, the
\* first two and the last of the signature or checksum
ReplacedBytes(token) ==
    {1, SESSION_PREFIX_LENGTH, SESSION_PREFIX_LENGTH + 1, SESSION_PREFIX_LENGTH + 2,
     Len(token) \div 2}

\* the strings that differ from the token in one byte
SingleByteReplacements(token) ==
    {WithByte(token, i, (ByteOf(token, i) + d) % 256) : i \in ReplacedBytes(token), d \in ByteChanges}

\* strings that are not the hex text of a token: the token followed by a
\* character that is not a hex digit, by one more hex digit, by one more byte;
\* the token without its last character or byte; the token with a character
\* that is not a hex digit in it; the empty string
MalformedTokens(token) ==
    {token \o <<NonHex>>, token \o <<5>>, token \o <<0, 0>>,
     SubSeq(token, 1, Len(token) - 1), SubSeq(token, 1, Len(token) - 2),
     [token EXCEPT ![3] = NonHex], [token EXCEPT ![Len(token)] = NonHex], <<NonHex, NonHex>>, <<>>}

\* the strings validateSessionId is given in place of a minted token (of the
\* tokens with a uniform prefix)
GivenStrings ==
    IF codec.prefix \in SessionPrefixes /\ codec.token # Thrown
    THEN SingleByteReplacements(codec.token) \cup MalformedTokens(codec.token)
    ELSE {}

\* validateSessionId(given, userId) on a string that is not the minted token
CodecValidateGiven(given, userId) ==
    /\ codec.op = "mint"
    /\ codec.token # Thrown
    /\ codec' = [codec EXCEPT !.op = "validate given", !.given = given, !.claimed = userId,
                              !.valid = validateSessionId(codec.ver, codec.key, given, userId)]
    /\ UNCHANGED <<sVars, lVars, mVars, xVars>>

\* the tokens a client presents to a process that has minted none: the ones
\* a process with the secret set had minted
PresentedTokens(ver) == {generateSessionId(ver, SecretKey, u, bytes) : u \in {1}, bytes \in SessionPrefixes}

\* validateSessionId(presented, userId) in a process that has minted no token
CodecValidatePresented(presented, userId) ==
    /\ codec.op = "none"
    /\ codec' = [codec EXCEPT !.op = "validate presented", !.given = presented, !.claimed = userId,
                              !.valid = validateSessionId(codec.ver, codec.key, presented, userId)]
    /\ UNCHANGED <<sVars, lVars, mVars, xVars>>

CodecNext ==
    \/ \E u \in UserIds, bytes \in RandomPrefixes : CodecMint(u, bytes)
    \/ \E u \in UserIds : CodecValidate(u)
    \/ \E given \in GivenStrings, u \in UserIds : CodecValidateGiven(given, u)
    \/ \E presented \in PresentedTokens(codec.ver), u \in UserIds : CodecValidatePresented(presented, u)

SpecCodec == CodecInit /\ [][CodecNext]_vars

\* C1: for every user id and every random prefix, the token minted for a user
\* verifies for that same user (both codecs).
C1_MintThenVerify ==
    (codec.op = "validate" /\ codec.claimed = codec.user) => codec.valid = "true"

\* a token minted by the HMAC codec for user 65522 has been verified for 65522
C1_Witness ==
    /\ codec.op = "validate"
    /\ codec.ver = "hmac"
    /\ codec.user = 65522
    /\ codec.claimed = 65522
    /\ codec.valid = "true"

\* C2: a token minted for one user never verifies for a different user.
C2_OtherUserRejected ==
    (codec.op = "validate" /\ codec.claimed # codec.user) => codec.valid = "false"

\* C19: a minted token with one byte (of the prefix or of the signature or
\* checksum) replaced by a different value verifies for no userId.
C19_SingleByteChangeRejected ==
    (codec.op = "validate given" /\ codec.given \in SingleByteReplacements(codec.token))
    => codec.valid = "false"

\* a string is the hex text of prefix-plus-signature bytes
WellFormed(ver, text) ==
    /\ \A n \in DOMAIN text : text[n] < NonHex
    /\ Len(text) = 2 * (SESSION_PREFIX_LENGTH + (IF ver = "checksum" THEN 2 ELSE DigestLength))

\* C20: validateSessionId returns false for every string that is not the hex
\* text of exactly prefix-plus-signature bytes: a character that is not a hex
\* digit (a token followed by garbage included), an odd length, a wrong length.
C20_MalformedRejected ==
    (codec.op = "validate given" /\ ~WellFormed(codec.ver, codec.given))
    => codec.valid = "false"

\* the relational store after saveSessionData of the minted token, for an
\* account of the user in an otherwise empty store
SavedMinted ==
    MySqlSaveSessionData(EmptyStore,
                         Session(codec.token,
                                 UserAccount(codec.user, Undef, "u", Undef, Undef, Undef))).st

\* C34: every token generateSessionId mints has at most 20 characters, the
\* width of sessions.id, so the relational saveSessionData stores it under
\* the full token.
C34_TokenFitsSessionKey ==
    (codec.op # "none" /\ codec.token # Thrown)
        => (/\ Len(codec.token) <= SessionIdColumnWidth
            /\ Has(SavedMinted.sqlSessions, codec.token))

\* the same for the checksum codec of src/lib/model.ts only
C34_ChecksumTokenFits ==
    (codec.op # "none" /\ codec.ver = "checksum")
        => (/\ Len(codec.token) <= SessionIdColumnWidth
            /\ Has(SavedMinted.sqlSessions, codec.token))

\* C36: no call of generateSessionId or of validateSessionId throws to its
\* caller, whether the signing secret is set or absent: a verification that
\* fails is answered false.
C36_CodecNeverThrows ==
    /\ codec.token # Thrown
    /\ codec.valid # "thrown"

\* validateSessionId alone does not throw
C36_ValidateNeverThrows == codec.valid # "thrown"

\* the same with the signing secret set
C36_NoThrowWithSecret ==
    ~SecretMissing(codec.ver, codec.key) => (codec.token # Thrown /\ codec.valid # "thrown")

\* the check value a token carries in its last two bytes
CheckValueOf(token) ==
    LET buff == FromHex(token)
    IN  buff[SESSION_PREFIX_LENGTH + 1] * 256 + buff[SESSION_PREFIX_LENGTH + 2]

\* C39: in the checksum codec the check value is below 65521 and is written
\* as two bytes, and a token minted for u1 verifies for u2 exactly when u1
\* and u2 are congruent modulo 65521.
C39_ChecksumCongruence ==
    (codec.ver = "checksum" /\ codec.op = "validate")
    => (/\ Len(FromHex(codec.token)) = SESSION_PREFIX_LENGTH + 2
        /\ \A n \in DOMAIN FromHex(codec.token) : FromHex(codec.token)[n] \in 0..255
        /\ CheckValueOf(codec.token) < SESSION_ROTATE_NUMBER
        /\ CheckValueOf(codec.token) = Checksum(codec.prefix, codec.user)
        /\ (codec.valid = "true")
              <=> (codec.user % SESSION_ROTATE_NUMBER = codec.claimed % SESSION_ROTATE_NUMBER)
        /\ codec.valid \in {"true", "false"})

\* a token minted for user 1 has verified for user 65522, and the check
\* value needs its high byte
C39_Witness ==
    /\ codec.ver = "checksum" /\ codec.op = "validate"
    /\ codec.user = 1 /\ codec.claimed = 65522
    /\ codec.valid = "true"
    /\ CheckValueOf(codec.token) > 255

=============================================================================
